---------------------------- MODULE Spec2Model ----------------------------
(***************************************************************************)
(* A model of the IB TWS client runtime: the framed transport reader, the  *)
(* message dispatch of the decoder, the background reader task with its    *)
(* event channel, the connection lifecycle of IBClient (disconnect, Drop)  *)
(* and the atomic request-ID counter.                                      *)
(*                                                                         *)
(* Bytes are integers 0..255.  A decoder position is the 0-based offset    *)
(* of the source, so data[pos + 1] is the byte at offset pos.              *)
(***************************************************************************)
EXTENDS Integers, Sequences, FiniteSets, TLC

\* ------------------------------------------------------------------------
\* Protocol constants
\* ------------------------------------------------------------------------
HEADER_LEN == 4
MAX_MSG_LEN == 16777215
RAW_INT_LEN == 4
PROTOBUF_MSG_ID == 200
PROTOBUF == 201
NEXT_VALID_ID == 9
OPEN_ORDER_END == 53
POSITION_END == 62
COMPLETED_ORDERS_END == 102
ORDER_STATUS == 3
ERR_MSG == 4
OPEN_ORDER == 5
EXECUTION_DATA == 11
MANAGED_ACCTS == 15
CURRENT_TIME == 49
EXECUTION_DATA_END == 55
FAMILY_CODES == 78
\* outgoing message IDs of the requests with version-gated fields
REQ_MKT_DATA == 1
CANCEL_ORDER == 4
REQ_HISTORICAL_DATA == 20
MIN_CLIENT_VER == 100
MAX_CLIENT_VER == 203
\* outgoing message IDs
START_API == 71
REQ_CURRENT_TIME == 49
REQ_CURRENT_TIME_IN_MILLIS == 105
REQ_WSH_META_DATA == 100
\* server-version gates
OPTIONAL_CAPABILITIES == 72
WSHE_CALENDAR == 161
CURRENT_TIME_IN_MILLIS == 197
DELTA_NEUTRAL == 40
REQ_MKT_DATA_CONID == 47
TRADING_CLASS == 68
LINKING == 70
REQ_SMART_COMPONENTS == 114
SYNT_REALTIME_BARS == 124
MANUAL_ORDER_TIME == 169
RFQ_FIELDS == 187
UNDO_RFQ_FIELDS == 190
CME_TAGGING_FIELDS == 192
CME_TAGGING_FIELDS_IN_OPEN_ORDER == 193
PROTOBUF_PLACE_ORDER == 203
MARKET_CAP_PRICE == 131
LAST_LIQUIDITY == 136
ORDER_CONTAINER == 145
ADVANCED_ORDER_REJECT == 166
PERM_ID_AS_LONG == 191
ERROR_TIME == 194
\* b"API\0"
API_SIGN == << 65, 80, 73, 0 >>
I32_MAX == 2147483647
I32_MIN == (0 - 2147483647) - 1

\* Every incoming ID that decode_server_msg_inner dispatches to a decoder.
IncomingIds ==
    (1..21) \cup {45, 46, 47} \cup (49..59) \cup (61..109)

\* ------------------------------------------------------------------------
\* Bounds of the model
\* ------------------------------------------------------------------------
\* Frames the server sends in one session.
MaxFrames == 2
\* Calls of disconnect() the application makes on one client.
MaxDisconnectCalls == 2
\* Calls of next_req_id / set_next_req_id on one client.
MaxIdCalls == 5
\* Request-method calls on one client.
MaxRequests == 2
\* Calls of the request methods, and of the place methods, on one manager.
MaxRequestCalls == 2
MaxPlaceCalls == 3
\* Events the server sends to one manager after its NextValidId.
MaxMgrEvents == 2

\* The server version the session of the model negotiated (text message IDs).
SessionServerVersion == 176

\* ------------------------------------------------------------------------
\* Results (Rust's Result<T, IBApiError>)
\* ------------------------------------------------------------------------
Ok(v, p) == [ok |-> TRUE, val |-> v, pos |-> p]
Err(kind) == [ok |-> FALSE, err |-> kind]
\* A result that carries a value only.
Value(v) == [ok |-> TRUE, val |-> v]

\* ------------------------------------------------------------------------
\* Byte helpers
\* ------------------------------------------------------------------------
\* u32::from_be_bytes; the model's headers keep b[1] < 128.
u32_from_be_bytes(b) ==
    ((b[1] * 256 + b[2]) * 256 + b[3]) * 256 + b[4]

\* i32::from_be_bytes (two's complement).
i32_from_be_bytes(b) ==
    IF b[1] >= 128
    THEN (((b[1] - 256) * 256 + b[2]) * 256 + b[3]) * 256 + b[4]
    ELSE ((b[1] * 256 + b[2]) * 256 + b[3]) * 256 + b[4]

\* (len as u32).to_be_bytes() for the lengths of the model (< 2^31).
u32_to_be_bytes(n) ==
    << (n \div 16777216) % 256, (n \div 65536) % 256, (n \div 256) % 256, n % 256 >>

\* std::str::from_utf8 succeeds; the model's bytes above 127 are only 255,
\* which no UTF-8 sequence contains.
utf8_valid(s) == \A i \in 1..Len(s) : s[i] < 128

IsDigit(b) == b \in 48..57

\* The accumulation loop of i32::from_str: positive numbers add, negative
\* numbers subtract, and a step that leaves the i32 range is an error (-1 is
\* never a partial result of a checked step, the flag is carried apart).
RECURSIVE parse_digits(_, _, _)
parse_digits(d, acc, neg) ==
    IF Len(d) = 0 THEN [ok |-> TRUE, val |-> acc]
    ELSE LET x == d[1] - 48 IN
         IF neg
         THEN IF acc < 0 - 214748364 \/ (acc = 0 - 214748364 /\ x > 8)
              THEN [ok |-> FALSE, val |-> 0]
              ELSE parse_digits(Tail(d), acc * 10 - x, neg)
         ELSE IF acc > 214748364 \/ (acc = 214748364 /\ x > 7)
              THEN [ok |-> FALSE, val |-> 0]
              ELSE parse_digits(Tail(d), acc * 10 + x, neg)

\* str::parse::<i32>: an optional sign, then at least one digit, in range.
parse_i32(s) ==
    LET signed == Len(s) > 0 /\ s[1] \in {43, 45}
        neg == Len(s) > 0 /\ s[1] = 45
        d == IF signed THEN Tail(s) ELSE s
    IN  IF Len(d) = 0 \/ (\E i \in 1..Len(d) : ~IsDigit(d[i]))
        THEN [ok |-> FALSE, val |-> 0]
        ELSE parse_digits(d, 0, neg)

\* ------------------------------------------------------------------------
\* MessageDecoder
\* ------------------------------------------------------------------------
has_remaining(data, pos) == pos < Len(data)

remaining(data, pos) == SubSeq(data, pos + 1, Len(data))

\* Offset of the next null byte at or after pos, -1 when there is none.
find_field_end(data, pos) ==
    LET nulls == {i \in pos..(Len(data) - 1) : data[i + 1] = 0}
    IN  IF nulls = {} THEN 0 - 1
        ELSE CHOOSE i \in nulls : \A j \in nulls : i <= j

\* A reader for which the end of the message is an empty field.
read_field_str_empty_at_end(data, pos) ==
    IF ~has_remaining(data, pos) THEN Ok(<< >>, pos + 1)
    ELSE LET end == find_field_end(data, pos) IN
         IF end < 0 THEN Err("Decoding")
         ELSE IF ~utf8_valid(SubSeq(data, pos + 1, end)) THEN Err("Decoding")
         ELSE Ok(SubSeq(data, pos + 1, end), end + 1)

read_field_str(data, pos) ==
    IF ~has_remaining(data, pos) THEN Err("Decoding")
    ELSE LET end == find_field_end(data, pos) IN
         IF end < 0 THEN Err("Decoding")
         ELSE IF ~utf8_valid(SubSeq(data, pos + 1, end)) THEN Err("Decoding")
         ELSE Ok(SubSeq(data, pos + 1, end), end + 1)

decode_i32(data, pos) ==
    LET s == read_field_str(data, pos) IN
    IF ~s.ok THEN s
    ELSE IF Len(s.val) = 0 THEN Ok(0, s.pos)
    ELSE LET n == parse_i32(s.val) IN
         IF n.ok THEN Ok(n.val, s.pos) ELSE Err("Decoding")

\* MessageDecoder::decode_i64, for values within i32 (the integers of the
\* model).
decode_i64(data, pos) == decode_i32(data, pos)

decode_time(data, pos) == decode_i64(data, pos)

\* Decimal::from_str: an optional sign, digits with at most one point and at
\* least one digit; the value is kept as its text.
parse_decimal(s) ==
    LET signed == Len(s) > 0 /\ s[1] \in {43, 45}
        d == IF signed THEN Tail(s) ELSE s
        points == {i \in 1..Len(d) : d[i] = 46}
    IN  /\ \A i \in 1..Len(d) : IsDigit(d[i]) \/ d[i] = 46
        /\ Cardinality(points) <= 1
        /\ Len(d) > Cardinality(points)

\* MessageDecoder::decode_decimal: the empty field is zero.
decode_decimal(data, pos) ==
    LET s == read_field_str(data, pos) IN
    IF ~s.ok THEN s
    ELSE IF Len(s.val) = 0 THEN Ok(<< 48 >>, s.pos)
    ELSE IF parse_decimal(s.val) THEN Ok(s.val, s.pos)
    ELSE Err("Decoding")

skip_field(data, pos) ==
    LET s == read_field_str(data, pos) IN
    IF ~s.ok THEN s ELSE Ok(TRUE, s.pos)

decode_raw_int(data, pos) ==
    IF Len(data) - pos < RAW_INT_LEN THEN Err("Decoding")
    ELSE Ok(i32_from_be_bytes(SubSeq(data, pos + 1, pos + RAW_INT_LEN)),
            pos + RAW_INT_LEN)

\* A decoder whose gate is one version late.
decode_msg_id_gate_late(data, pos, sv) ==
    IF sv > PROTOBUF THEN decode_raw_int(data, pos) ELSE decode_i32(data, pos)

decode_msg_id(data, pos, sv) ==
    IF sv >= PROTOBUF THEN decode_raw_int(data, pos) ELSE decode_i32(data, pos)

\* Option::None of a type whose values are not byte strings.
Absent == [some |-> FALSE]

\* MessageDecoder::decode_string.
decode_string(data, pos) == read_field_str(data, pos)

\* MessageDecoder::decode_bool: the i32, then > 0.
decode_bool(data, pos) ==
    LET v == decode_i32(data, pos) IN
    IF ~v.ok THEN v ELSE Ok(v.val > 0, v.pos)

\* MessageDecoder::decode_i32_max: the empty field is None.
decode_i32_max(data, pos) ==
    LET s == read_field_str(data, pos) IN
    IF ~s.ok THEN s
    ELSE IF Len(s.val) = 0 THEN Ok(Absent, s.pos)
    ELSE LET n == parse_i32(s.val) IN
         IF n.ok THEN Ok([some |-> TRUE, val |-> n.val], s.pos)
         ELSE Err("Decoding")

\* f64 values of the model: NaN, the two infinities, and the decimal
\* numbers mant * 10^exp with mant free of trailing zeros.
F64Nan == [class |-> "nan"]
F64Inf(neg) == [class |-> "inf", neg |-> neg]
F64(neg, mant, exp) == [class |-> "finite", neg |-> neg, mant |-> mant, exp |-> exp]

RECURSIVE f64_normal(_, _, _)
f64_normal(neg, mant, exp) ==
    IF mant = 0 THEN F64(neg, 0, 0)
    ELSE IF mant % 10 = 0 THEN f64_normal(neg, mant \div 10, exp + 1)
    ELSE F64(neg, mant, exp)

to_ascii_lowercase(s) ==
    [i \in 1..Len(s) |-> IF s[i] \in 65..90 THEN s[i] + 32 ELSE s[i]]

RECURSIVE digits_value(_, _)
digits_value(d, acc) ==
    IF Len(d) = 0 THEN acc ELSE digits_value(Tail(d), acc * 10 + (d[1] - 48))

\* str::parse::<f64>: a sign, then "inf", "infinity" or "nan" in any case,
\* or digits with an optional point (the exponent form is not modelled).
parse_f64(s) ==
    LET signed == Len(s) > 0 /\ s[1] \in {43, 45}
        neg == Len(s) > 0 /\ s[1] = 45
        t == IF signed THEN Tail(s) ELSE s
        low == to_ascii_lowercase(t)
        points == {i \in 1..Len(t) : t[i] = 46}
    IN  IF low \in { << 105, 110, 102 >>,
                     << 105, 110, 102, 105, 110, 105, 116, 121 >> }
        THEN [ok |-> TRUE, val |-> F64Inf(neg)]
        ELSE IF low = << 110, 97, 110 >> THEN [ok |-> TRUE, val |-> F64Nan]
        ELSE IF Cardinality(points) > 1 THEN [ok |-> FALSE]
        ELSE LET p == IF points = {} THEN Len(t) + 1 ELSE CHOOSE i \in points : TRUE
                 int == SubSeq(t, 1, p - 1)
                 frac == SubSeq(t, p + 1, Len(t))
             IN  IF Len(int) + Len(frac) = 0
                    \/ (\E i \in 1..Len(int) : ~IsDigit(int[i]))
                    \/ (\E i \in 1..Len(frac) : ~IsDigit(frac[i]))
                 THEN [ok |-> FALSE]
                 ELSE [ok |-> TRUE,
                       val |-> f64_normal(neg, digits_value(int \o frac, 0),
                                          0 - Len(frac))]

\* MessageDecoder::decode_f64: empty is 0.0, "Infinity", else the parse.
decode_f64(data, pos) ==
    LET s == read_field_str(data, pos) IN
    IF ~s.ok THEN s
    ELSE IF Len(s.val) = 0 THEN Ok(F64(FALSE, 0, 0), s.pos)
    ELSE IF s.val = << 73, 110, 102, 105, 110, 105, 116, 121 >>
    THEN Ok(F64Inf(FALSE), s.pos)
    ELSE LET x == parse_f64(s.val) IN
         IF x.ok THEN Ok(x.val, s.pos) ELSE Err("Decoding")

\* impl FromStr for Right: "C" | "CALL", "P" | "PUT", anything else.
right_from_str(s) ==
    IF s \in { << 67 >>, << 67, 65, 76, 76 >> } THEN "Call"
    ELSE IF s \in { << 80 >>, << 80, 85, 84 >> } THEN "Put"
    ELSE "Undefined"

\* impl FromStr for Action: an unknown action is an error.
action_from_str(s) ==
    IF s = << 66, 85, 89 >> THEN [ok |-> TRUE, val |-> "Buy"]
    ELSE IF s = << 83, 69, 76, 76 >> THEN [ok |-> TRUE, val |-> "Sell"]
    ELSE IF s = << 83, 83, 72, 79, 82, 84 >> THEN [ok |-> TRUE, val |-> "SellShort"]
    ELSE [ok |-> FALSE]

\* decode_enum::<Right> and decode_enum::<Action>.
decode_enum_right(data, pos) ==
    LET s == read_field_str(data, pos) IN
    IF ~s.ok THEN s ELSE Ok(right_from_str(s.val), s.pos)

decode_enum_action(data, pos) ==
    LET s == read_field_str(data, pos) IN
    IF ~s.ok THEN s
    ELSE IF action_from_str(s.val).ok
    THEN Ok(action_from_str(s.val).val, s.pos)
    ELSE Err("Decoding")

\* decode_enum_opt::<Right>: the empty field is None.
decode_enum_opt_right(data, pos) ==
    LET s == read_field_str(data, pos) IN
    IF ~s.ok THEN s
    ELSE IF Len(s.val) = 0 THEN Ok(Absent, s.pos)
    ELSE Ok([some |-> TRUE, val |-> right_from_str(s.val)], s.pos)

\* ------------------------------------------------------------------------
\* MessageEncoder (the buffer is modelled without its 4-byte placeholder)
\* ------------------------------------------------------------------------
\* i32::to_be_bytes (two's complement).
i32_to_be_bytes(v) ==
    IF v >= 0 THEN u32_to_be_bytes(v)
    ELSE LET c == u32_to_be_bytes(0 - (v + 1))
         IN  << 255 - c[1], 255 - c[2], 255 - c[3], 255 - c[4] >>

RECURSIVE fmt_nat(_)
fmt_nat(n) ==
    IF n < 10 THEN << 48 + n >> ELSE fmt_nat(n \div 10) \o << 48 + (n % 10) >>

\* value.to_string() of an i32: ASCII decimal with a sign (the digits of
\* i32::MIN are those of i32::MAX + 1).
write_display(v) ==
    IF v >= 0 THEN fmt_nat(v)
    ELSE IF v = I32_MIN
    THEN << 45 >> \o fmt_nat(I32_MAX \div 10) \o << 48 + (I32_MAX % 10) + 1 >>
    ELSE << 45 >> \o fmt_nat(0 - v)

\* encode_field_str: a value that is not ASCII printable is logged with
\* tracing::warn!, and written like any other.
encode_field_str(buf, value) == buf \o value \o << 0 >>

encode_field_i32(buf, value) == buf \o write_display(value) \o << 0 >>

encode_raw_int(buf, value) == buf \o i32_to_be_bytes(value)

\* is_ascii_printable: 32..126, tab, LF and CR.
is_ascii_printable(s) ==
    \A i \in 1..Len(s) : s[i] \in 32..126 \/ s[i] \in {9, 10, 13}

encode_field_bool(buf, value) ==
    buf \o (IF value THEN << 49 >> ELSE << 48 >>) \o << 0 >>

\* encode_field_max_i32: None is the empty field.
encode_field_max_i32(buf, value) ==
    IF value.some THEN encode_field_i32(buf, value.val) ELSE buf \o << 0 >>

\* f64's Display: "NaN", "inf", "-inf", or the decimal digits without an
\* exponent.
RECURSIVE zeros(_)
zeros(n) == IF n <= 0 THEN << >> ELSE << 48 >> \o zeros(n - 1)

f64_to_string(x) ==
    IF x.class = "nan" THEN << 78, 97, 78 >>
    ELSE IF x.class = "inf"
    THEN (IF x.neg THEN << 45 >> ELSE << >>) \o << 105, 110, 102 >>
    ELSE LET d == fmt_nat(x.mant)
             body == IF x.exp >= 0 THEN d \o zeros(x.exp)
                     ELSE IF Len(d) > 0 - x.exp
                     THEN SubSeq(d, 1, Len(d) + x.exp) \o << 46 >>
                              \o SubSeq(d, Len(d) + x.exp + 1, Len(d))
                     ELSE << 48, 46 >> \o zeros((0 - x.exp) - Len(d)) \o d
         IN  (IF x.neg THEN << 45 >> ELSE << >>) \o body

\* encode_field_f64: "Infinity" for +inf, else the Display.
encode_field_f64(buf, value) ==
    IF value.class = "inf" /\ ~value.neg
    THEN buf \o << 73, 110, 102, 105, 110, 105, 116, 121, 0 >>
    ELSE buf \o f64_to_string(value) \o << 0 >>

\* impl Display for Right, for Action.
right_to_string(r) ==
    IF r = "Call" THEN << 67 >> ELSE IF r = "Put" THEN << 80 >> ELSE << >>

action_to_string(a) ==
    IF a = "Buy" THEN << 66, 85, 89 >>
    ELSE IF a = "Sell" THEN << 83, 69, 76, 76 >>
    ELSE << 83, 83, 72, 79, 82, 84 >>

\* encode_field_display and encode_field_opt_display.
encode_field_display(buf, text) == buf \o text \o << 0 >>

encode_field_opt_display(buf, opt) ==
    IF opt.some THEN encode_field_display(buf, opt.val) ELSE buf \o << 0 >>

\* An encoder that writes every message ID as text.
encode_msg_id_text_only(buf, msg_id, sv) == encode_field_i32(buf, msg_id)

encode_msg_id(buf, msg_id, sv) ==
    IF sv >= PROTOBUF THEN encode_raw_int(buf, msg_id)
    ELSE encode_field_i32(buf, msg_id)

\* A length check that stops one byte short of the ceiling.
finalize_header_below_max(msg_len) ==
    IF msg_len >= MAX_MSG_LEN THEN Err("Encoding")
    ELSE Ok(u32_to_be_bytes(msg_len), 0)

\* The length check of finalize, and the header it writes at offset 0.
finalize_header(msg_len) ==
    IF msg_len > MAX_MSG_LEN THEN Err("Encoding")
    ELSE Ok(u32_to_be_bytes(msg_len), 0)

\* MessageEncoder::finalize: the length check, then the header.
finalize(buf) ==
    IF ~finalize_header(Len(buf)).ok THEN Err("Encoding")
    ELSE Ok(finalize_header(Len(buf)).val \o buf, 0)

\* build_connect_request(None): "API\0", the length, "v100..203".
build_connect_request ==
    LET body == IF MIN_CLIENT_VER < MAX_CLIENT_VER
                THEN << 118 >> \o write_display(MIN_CLIENT_VER) \o << 46, 46 >>
                         \o write_display(MAX_CLIENT_VER)
                ELSE << 118 >> \o write_display(MIN_CLIENT_VER)
    IN  IF Len(body) > MAX_MSG_LEN THEN Err("Encoding")
        ELSE Ok(API_SIGN \o u32_to_be_bytes(Len(body)) \o body, 0)

\* ------------------------------------------------------------------------
\* Events (IBEvent) and the dispatch of a frame body
\* ------------------------------------------------------------------------
ConnectionClosed == [type |-> "ConnectionClosed"]
OpenOrderEnd == [type |-> "OpenOrderEnd"]
PositionEnd == [type |-> "PositionEnd"]
CompletedOrdersEnd == [type |-> "CompletedOrdersEnd"]
Unknown(id, bytes) == [type |-> "Unknown", msg_id |-> id, data |-> bytes]
\* The Error event the reader task builds from a failed read.
ReaderError(kind) ==
    [type |-> "Error", req_id |-> 0 - 1, error_time |-> 0, code |-> 0,
     message |-> <<"reader error", kind>>]

\* NEXT_VALID_ID: a version field, then the order id (an i64 in the source;
\* the model's order ids are within i32).
decode_next_valid_id(data, pos) ==
    LET v == decode_i32(data, pos) IN
    IF ~v.ok THEN v
    ELSE LET o == decode_i32(data, v.pos) IN
         IF ~o.ok THEN o
         ELSE Ok([type |-> "NextValidId", order_id |-> o.val], o.pos)

\* decode_id_long: an i64 from PERM_ID_AS_LONG on, else an i32 widened.
decode_id_long(data, pos, sv) ==
    IF sv >= PERM_ID_AS_LONG THEN decode_i64(data, pos)
    ELSE decode_i32(data, pos)

\* MessageDecoder::decode_f64_max: the empty field is None.
decode_f64_max(data, pos) ==
    LET s == read_field_str(data, pos) IN
    IF ~s.ok THEN s
    ELSE IF Len(s.val) = 0 THEN Ok(Absent, s.pos)
    ELSE IF s.val = << 73, 110, 102, 105, 110, 105, 116, 121 >>
    THEN Ok([some |-> TRUE, val |-> F64Inf(FALSE)], s.pos)
    ELSE LET x == parse_f64(s.val) IN
         IF x.ok THEN Ok([some |-> TRUE, val |-> x.val], s.pos)
         ELSE Err("Decoding")

\* One field of a message, by the decoder method the source calls on it.
decode_field(kind, data, pos, sv) ==
    IF kind = "i32" THEN decode_i32(data, pos)
    ELSE IF kind = "bool" THEN decode_bool(data, pos)
    ELSE IF kind = "f64_max" THEN decode_f64_max(data, pos)
    ELSE IF kind = "string" THEN decode_string(data, pos)
    ELSE IF kind = "f64" THEN decode_f64(data, pos)
    ELSE IF kind = "decimal" THEN decode_decimal(data, pos)
    ELSE IF kind = "time" THEN decode_time(data, pos)
    ELSE IF kind = "id_long" THEN decode_id_long(data, pos, sv)
    ELSE skip_field(data, pos)

\* The chain of `?` of a message decoder: its fields in turn, the first Err
\* returned, else the values and the position after the last field.
RECURSIVE decode_fields(_, _, _, _, _)
next_field(field, kinds, data, sv, vals) ==
    IF ~field.ok THEN field
    ELSE decode_fields(Tail(kinds), data, field.pos, sv,
                       Append(vals, field.val))

decode_fields(kinds, data, pos, sv, vals) ==
    IF kinds = << >> THEN Ok(vals, pos)
    ELSE next_field(decode_field(Head(kinds), data, pos, sv), kinds, data, sv,
                    vals)

\* OrderConditionType, and TriggerMethod with its try_from(..).unwrap_or(
\* TriggerMethod::Default).
ConditionTypes == { 1, 3, 4, 5, 6, 7 }

TriggerMethods == { 0, 1, 2, 3, 4, 7, 8 }

trigger_method_or_default(v) == IF v \in TriggerMethods THEN v ELSE 0

\* The decoder calls of decode_order_condition after the conjunction field,
\* per condition type, in the order of the source.
ConditionFields(condition_type) ==
    IF condition_type = 1 THEN << "bool", "i32", "string", "f64", "i32" >>
    ELSE IF condition_type = 3 THEN << "bool", "string" >>
    ELSE IF condition_type = 4 THEN << "bool", "i32" >>
    ELSE IF condition_type = 5 THEN << "string", "string", "string" >>
    ELSE IF condition_type = 6 THEN << "bool", "i32", "string", "i32" >>
    ELSE << "bool", "i32", "string", "f64_max" >>

\* The variant decode_order_condition builds from the values it decoded.
order_condition(condition_type, conj, v) ==
    IF condition_type = 1
    THEN [variant |-> "Price", is_conjunction_connection |-> conj,
          is_more |-> v[1], con_id |-> v[2], exchange |-> v[3],
          price |-> v[4], trigger_method |-> trigger_method_or_default(v[5])]
    ELSE IF condition_type = 3
    THEN [variant |-> "Time", is_conjunction_connection |-> conj,
          is_more |-> v[1], time |-> v[2]]
    ELSE IF condition_type = 4
    THEN [variant |-> "Margin", is_conjunction_connection |-> conj,
          is_more |-> v[1], percent |-> v[2]]
    ELSE IF condition_type = 5
    THEN [variant |-> "Execution", is_conjunction_connection |-> conj,
          exchange |-> v[1], sec_type |-> v[2], symbol |-> v[3]]
    ELSE IF condition_type = 6
    THEN [variant |-> "Volume", is_conjunction_connection |-> conj,
          is_more |-> v[1], con_id |-> v[2], exchange |-> v[3],
          volume |-> v[4]]
    ELSE [variant |-> "PercentChange", is_conjunction_connection |-> conj,
          is_more |-> v[1], con_id |-> v[2], exchange |-> v[3],
          change_percent |-> v[4]]

condition_built(condition_type, conj, fields) ==
    IF ~fields.ok THEN fields
    ELSE Ok(order_condition(condition_type, conj, fields.val), fields.pos)

condition_tail(conj_str, data, condition_type) ==
    IF ~conj_str.ok THEN conj_str
    ELSE IF condition_type \notin ConditionTypes THEN Err("Decoding")
    ELSE condition_built(condition_type, conj_str.val = << 97 >>,
                         decode_fields(ConditionFields(condition_type), data,
                                       conj_str.pos, 0, << >>))

\* decode_order_condition: the conjunction field, then the fields of the
\* variant the type code names.
decode_order_condition(data, pos, condition_type) ==
    condition_tail(decode_string(data, pos), data, condition_type)

\* The caller of decode_order_condition: the type code, then the condition.
condition_of_type(type, data) ==
    IF ~type.ok THEN type ELSE decode_order_condition(data, type.pos, type.val)

decode_condition(data, pos) == condition_of_type(decode_i32(data, pos), data)

\* ERR_MSG: the old format below version 2, else id, code, message and the
\* two version-gated fields.
ErrorEvent(req_id, error_time, code, message, json) ==
    [type |-> "Error", req_id |-> req_id, error_time |-> error_time,
     code |-> code, message |-> message, advanced_order_reject_json |-> json]

\* The fields after the version field, in the new format.
ErrMsgFields(sv) ==
    << "i32", "i32", "string" >>
        \o (IF sv >= ADVANCED_ORDER_REJECT THEN << "string" >> ELSE << >>)
        \o (IF sv >= ERROR_TIME THEN << "time" >> ELSE << >>)

err_msg_old(msg) ==
    IF ~msg.ok THEN msg
    ELSE Ok(ErrorEvent(0 - 1, 0, 0, msg.val, << >>), msg.pos)

err_msg_new(fields, sv) ==
    IF ~fields.ok THEN fields
    ELSE Ok(ErrorEvent(fields.val[1],
                       IF sv >= ERROR_TIME THEN fields.val[Len(fields.val)]
                       ELSE 0,
                       fields.val[2], fields.val[3],
                       IF sv >= ADVANCED_ORDER_REJECT THEN fields.val[4]
                       ELSE << >>),
            fields.pos)

err_msg_by_version(version, data, sv) ==
    IF ~version.ok THEN version
    ELSE IF version.val < 2
    THEN err_msg_old(decode_string(data, version.pos))
    ELSE err_msg_new(decode_fields(ErrMsgFields(sv), data, version.pos, sv,
                                   << >>), sv)

decode_err_msg(data, pos, sv) ==
    err_msg_by_version(decode_i32(data, pos), data, sv)

\* MANAGED_ACCTS: a version field, then the account list.
decode_managed_accts(data, pos) ==
    LET version == decode_i32(data, pos)
        accounts == decode_string(data, version.pos)
    IN  IF ~version.ok THEN version
        ELSE IF ~accounts.ok THEN accounts
        ELSE Ok([type |-> "ManagedAccounts", accounts |-> accounts.val],
                accounts.pos)

\* CURRENT_TIME: a version field, then the time.
decode_current_time(data, pos) ==
    LET version == decode_i32(data, pos)
        time == decode_time(data, version.pos)
    IN  IF ~version.ok THEN version
        ELSE IF ~time.ok THEN time
        ELSE Ok([type |-> "CurrentTime", time |-> time.val], time.pos)

\* ORDER_STATUS: the version field only below MARKET_CAP_PRICE, the market
\* cap price only from it on.
OrderStatusFields(sv) ==
    (IF sv < MARKET_CAP_PRICE THEN << "skip" >> ELSE << >>)
        \o << "id_long", "string", "decimal", "decimal", "f64", "id_long",
              "i32", "f64", "i32", "string" >>
        \o (IF sv >= MARKET_CAP_PRICE THEN << "f64" >> ELSE << >>)

\* The event of the fields from order_id on.
order_status_event(v, sv) ==
    [type |-> "OrderStatus", order_id |-> v[1], status |-> v[2],
     filled |-> v[3], remaining |-> v[4], avg_fill_price |-> v[5],
     perm_id |-> v[6], parent_id |-> v[7], last_fill_price |-> v[8],
     client_id |-> v[9], why_held |-> v[10],
     mkt_cap_price |-> IF sv >= MARKET_CAP_PRICE THEN v[11]
                       ELSE F64(FALSE, 0, 0)]

order_status(fields, sv) ==
    IF ~fields.ok THEN fields
    ELSE Ok(order_status_event(IF sv < MARKET_CAP_PRICE THEN Tail(fields.val)
                               ELSE fields.val, sv),
            fields.pos)

decode_order_status(data, pos, sv) ==
    order_status(decode_fields(OrderStatusFields(sv), data, pos, sv, << >>), sv)

\* EXECUTION_DATA_END: a version field, then the request id.
decode_execution_data_end(data, pos) ==
    LET version == decode_i32(data, pos)
        req_id == decode_i32(data, version.pos)
    IN  IF ~version.ok THEN version
        ELSE IF ~req_id.ok THEN req_id
        ELSE Ok([type |-> "ExecDetailsEnd", req_id |-> req_id.val], req_id.pos)

\* A panic of the decoding thread: the call unwinds and returns nothing.
Panic == [ok |-> FALSE, err |-> "Panic"]

\* The (account, family code) pairs of FAMILY_CODES.
RECURSIVE decode_codes(_, _, _, _)
decode_codes(data, pos, count, codes) ==
    IF count <= 0 THEN Ok(codes, pos)
    ELSE LET account_id == decode_string(data, pos)
             family_code_str == decode_string(data, account_id.pos)
         IN  IF ~account_id.ok THEN account_id
             ELSE IF ~family_code_str.ok THEN family_code_str
             ELSE decode_codes(data, family_code_str.pos, count - 1,
                               Append(codes, << account_id.val,
                                                family_code_str.val >>))

\* FAMILY_CODES: a count, then that many pairs.  Vec::with_capacity(count as
\* usize) panics with "capacity overflow" for a negative count, which the
\* cast turns into a capacity above isize::MAX bytes.
decode_family_codes(data, pos) ==
    LET count == decode_i32(data, pos)
        codes == decode_codes(data, count.pos, count.val, << >>)
    IN  IF ~count.ok THEN count
        ELSE IF count.val < 0 THEN Panic
        ELSE IF ~codes.ok THEN codes
        ELSE Ok([type |-> "FamilyCodes", codes |-> codes.val], codes.pos)

\* The fields of a contract, an order, an order state or an execution: the
\* model reads them as string fields up to the end of the body and keeps
\* none of their values.
RECURSIVE skip_to_end(_, _)
skip_to_end(data, pos) ==
    IF ~has_remaining(data, pos) THEN Ok(TRUE, pos)
    ELSE LET f == skip_field(data, pos) IN
         IF ~f.ok THEN f ELSE skip_to_end(data, f.pos)

\* OPEN_ORDER: the version field only below ORDER_CONTAINER, the order id,
\* then the contract, order and order state.
decode_open_order(data, pos, sv) ==
    LET version == IF sv < ORDER_CONTAINER THEN decode_i32(data, pos)
                   ELSE Ok(sv, pos)
        order_id == decode_id_long(data, version.pos, sv)
        rest == skip_to_end(data, order_id.pos)
    IN  IF ~version.ok THEN version
        ELSE IF ~order_id.ok THEN order_id
        ELSE IF ~rest.ok THEN rest
        ELSE Ok([type |-> "OpenOrder", order_id |-> order_id.val], rest.pos)

\* EXECUTION_DATA: the version field only below LAST_LIQUIDITY, the request
\* id from version 7 on, the order id, then the contract and execution.
decode_execution_data(data, pos, sv) ==
    LET version == IF sv < LAST_LIQUIDITY THEN decode_i32(data, pos)
                   ELSE Ok(sv, pos)
        req_id == IF version.val >= 7 THEN decode_i32(data, version.pos)
                  ELSE Ok(0 - 1, version.pos)
        order_id == decode_i32(data, req_id.pos)
        rest == skip_to_end(data, order_id.pos)
    IN  IF ~version.ok THEN version
        ELSE IF ~req_id.ok THEN req_id
        ELSE IF ~order_id.ok THEN order_id
        ELSE IF ~rest.ok THEN rest
        ELSE Ok([type |-> "ExecDetails", req_id |-> req_id.val], rest.pos)

\* A base-128 varint of the protobuf wire format: the offset after it and
\* its value, or -1 when the payload ends inside it.  The varints of the
\* model are at most four bytes long (values below 2^28).
RECURSIVE pb_varint(_, _, _, _)
pb_varint(data, pos, shift, acc) ==
    IF pos >= Len(data) \/ shift > 3 THEN [end |-> 0 - 1, val |-> 0]
    ELSE LET b == data[pos + 1]
             v == acc + (b % 128) * (128 ^ shift) IN
         IF b < 128 THEN [end |-> pos + 1, val |-> v]
         ELSE pb_varint(data, pos + 1, shift + 1, v)

\* prost's Message::decode of a payload whose fields the schema does not
\* know or knows with the same wire type: a run of (key, value) pairs, the
\* key a varint of field number and wire type, the value by wire type
\* (0 varint, 1 eight bytes, 2 length-delimited, 5 four bytes).
RECURSIVE pb_decode(_, _)
pb_decode(data, pos) ==
    IF pos >= Len(data) THEN Ok(TRUE, pos)
    ELSE LET key == pb_varint(data, pos, 0, 0)
             wire_type == key.val % 8
             value == pb_varint(data, key.end, 0, 0)
             next == IF wire_type = 0 THEN value.end
                     ELSE IF wire_type = 1 THEN key.end + 8
                     ELSE IF wire_type = 2
                     THEN (IF value.end < 0 THEN 0 - 1
                           ELSE value.end + value.val)
                     ELSE IF wire_type = 5 THEN key.end + 4
                     ELSE 0 - 1
         IN  IF key.end < 0 \/ key.val \div 8 = 0 THEN Err("Decoding")
             ELSE IF next < 0 \/ next > Len(data) THEN Err("Decoding")
             ELSE pb_decode(data, next)

\* The event variant each protobuf decoder builds from a decoded payload.
pb_variant(real_msg_id) ==
    IF real_msg_id = ORDER_STATUS THEN "OrderStatus"
    ELSE IF real_msg_id = ERR_MSG THEN "Error"
    ELSE IF real_msg_id = OPEN_ORDER THEN "OpenOrder"
    ELSE IF real_msg_id = EXECUTION_DATA THEN "ExecDetails"
    ELSE IF real_msg_id = OPEN_ORDER_END THEN "OpenOrderEnd"
    ELSE "ExecDetailsEnd"

\* A protobuf dispatch that knows only the two messages with no body.
decode_protobuf_msg_ends_only(real_msg_id, bytes) ==
    IF real_msg_id \in { OPEN_ORDER_END, EXECUTION_DATA_END }
    THEN LET proto == pb_decode(bytes, 0) IN
         IF ~proto.ok THEN proto
         ELSE Ok([type |-> pb_variant(real_msg_id), proto |-> bytes], proto.pos)
    ELSE Err("Decoding")

\* The protobuf branch: only six IDs have a protobuf decoder; any other one
\* is a Decoding error.  The event keeps the payload in place of the fields
\* the decoder copies out of it.
decode_protobuf_msg(real_msg_id, bytes) ==
    IF real_msg_id \in { ORDER_STATUS, ERR_MSG, OPEN_ORDER, EXECUTION_DATA,
                         OPEN_ORDER_END, EXECUTION_DATA_END }
    THEN LET proto == pb_decode(bytes, 0) IN
         IF ~proto.ok THEN proto
         ELSE Ok([type |-> pb_variant(real_msg_id), proto |-> bytes], proto.pos)
    ELSE Err("Decoding")

\* The IDs whose decoders the model follows field by field.
FieldDecodedIds ==
    { ORDER_STATUS, ERR_MSG, OPEN_ORDER, NEXT_VALID_ID, EXECUTION_DATA,
      MANAGED_ACCTS, CURRENT_TIME, OPEN_ORDER_END, EXECUTION_DATA_END,
      POSITION_END, FAMILY_CODES, COMPLETED_ORDERS_END }

\* The position of the protobuf decoder counted from the start of the body.
after_msg_id(proto, pos) ==
    IF ~proto.ok THEN proto ELSE Ok(proto.val, pos + proto.pos)

\* A dispatch for which an ID outside the table is a decoding error.
dispatch_strict(id, data, sv) ==
    IF ~id.ok THEN id
    ELSE IF id.val > PROTOBUF_MSG_ID
    THEN after_msg_id(decode_protobuf_msg(id.val - PROTOBUF_MSG_ID,
                                          remaining(data, id.pos)), id.pos)
    ELSE IF id.val = ERR_MSG THEN decode_err_msg(data, id.pos, sv)
    ELSE IF id.val = NEXT_VALID_ID THEN decode_next_valid_id(data, id.pos)
    ELSE IF id.val = MANAGED_ACCTS THEN decode_managed_accts(data, id.pos)
    ELSE IF id.val = CURRENT_TIME THEN decode_current_time(data, id.pos)
    ELSE IF id.val = ORDER_STATUS THEN decode_order_status(data, id.pos, sv)
    ELSE IF id.val = OPEN_ORDER THEN decode_open_order(data, id.pos, sv)
    ELSE IF id.val = OPEN_ORDER_END THEN Ok(OpenOrderEnd, id.pos)
    ELSE IF id.val = COMPLETED_ORDERS_END THEN Ok(CompletedOrdersEnd, id.pos)
    ELSE IF id.val = EXECUTION_DATA
    THEN decode_execution_data(data, id.pos, sv)
    ELSE IF id.val = EXECUTION_DATA_END
    THEN decode_execution_data_end(data, id.pos)
    ELSE IF id.val = POSITION_END THEN Ok(PositionEnd, id.pos)
    ELSE IF id.val = FAMILY_CODES THEN decode_family_codes(data, id.pos)
    ELSE IF id.val \in IncomingIds
    THEN Ok([type |-> "Decoded", msg_id |-> id.val, data |-> data], id.pos)
    ELSE Err("Decoding")

\* The dispatch of decode_server_msg_inner on the decoded message ID: the
\* protobuf branch above PROTOBUF_MSG_ID, else the table, else Unknown.
dispatch(id, data, sv) ==
    IF ~id.ok THEN id
    ELSE IF id.val > PROTOBUF_MSG_ID
    THEN after_msg_id(decode_protobuf_msg(id.val - PROTOBUF_MSG_ID,
                                          remaining(data, id.pos)), id.pos)
    ELSE IF id.val = ERR_MSG THEN decode_err_msg(data, id.pos, sv)
    ELSE IF id.val = NEXT_VALID_ID THEN decode_next_valid_id(data, id.pos)
    ELSE IF id.val = MANAGED_ACCTS THEN decode_managed_accts(data, id.pos)
    ELSE IF id.val = CURRENT_TIME THEN decode_current_time(data, id.pos)
    ELSE IF id.val = ORDER_STATUS THEN decode_order_status(data, id.pos, sv)
    ELSE IF id.val = OPEN_ORDER THEN decode_open_order(data, id.pos, sv)
    ELSE IF id.val = OPEN_ORDER_END THEN Ok(OpenOrderEnd, id.pos)
    ELSE IF id.val = COMPLETED_ORDERS_END THEN Ok(CompletedOrdersEnd, id.pos)
    ELSE IF id.val = EXECUTION_DATA
    THEN decode_execution_data(data, id.pos, sv)
    ELSE IF id.val = EXECUTION_DATA_END
    THEN decode_execution_data_end(data, id.pos)
    ELSE IF id.val = POSITION_END THEN Ok(PositionEnd, id.pos)
    ELSE IF id.val = FAMILY_CODES THEN decode_family_codes(data, id.pos)
    ELSE IF id.val \in IncomingIds
    THEN Ok([type |-> "Decoded", msg_id |-> id.val, data |-> data], id.pos)
    ELSE Ok(Unknown(id.val, data), id.pos)

decode_server_msg_inner(data, sv) ==
    dispatch(decode_msg_id(data, 0, sv), data, sv)

\* The Ok and Err arms of decode_server_msg: the event, an Unknown event for
\* an Err of the inner function; a panic of the inner function is not an Err
\* and passes through.
event_or_unknown(r, data) ==
    IF r.ok THEN Value(r.val)
    ELSE IF r = Panic THEN Panic
    ELSE Value(Unknown(0 - 1, data))

decode_server_msg(data, sv) ==
    event_or_unknown(decode_server_msg_inner(data, sv), data)

\* ------------------------------------------------------------------------
\* State
\* ------------------------------------------------------------------------
VARIABLES
    wire,               \* bytes the server wrote that the client has not read
    server_closed,      \* the server closed its end (EOF follows the wire)
    frames_sent,        \* history: the complete frames the server wrote
    read_buf,           \* TransportReader.read_buf
    reader_pc,          \* "header" | "body" | "done": where MessageReader::run is
    reader_exit,        \* why the reader task ended
    emitted,            \* history: every event the reader passed to tx.send
    chan,               \* history: the events the channel accepted, in order
    pending,            \* << event >>: decoded, not yet passed to tx.send
    nrecv,              \* how many of chan the application has received
    rx_alive,           \* the UnboundedReceiver has not been dropped
    connected,          \* IBClient.connected
    writer,             \* IBClient.writer: "open" | "shut"
    reader_handle,      \* IBClient.reader_handle: "some" | "none"
    reader_fate,        \* what the client did with the task: "none" | "joined" | "aborted"
    abort_requested,    \* JoinHandle::abort was called on a running task
    client_pc,          \* "idle" | "shutdown" | "join" | "dropped"
    disconnect_calls,   \* history: calls of disconnect()
    shutdown_calls,     \* history: calls of TransportWriter::shutdown
    next_req_id,        \* IBClient.next_req_id (AtomicI32)
    minted,             \* history: IDs returned since the last set_next_req_id
    id_calls,           \* history: calls on the counter
    last_set,           \* history: << n >> after set_next_req_id(n), else << >>
    hs_pc,              \* where IBClient::connect is: "tcp" | "request" | "ack" |
                        \*   "start_api" | "done" | "failed"
    tcp_opens,          \* history: calls of TcpStream::connect
    connect_args,       \* the client_id and optional_capabilities of connect
    hs_reply,           \* history: the handshake replies the server wrote
    split_buf,          \* history: the read_buf into_split moved to the reader
    connect_result,     \* what connect returned
    server_version,     \* Transport.server_version, then IBClient.server_version
    tws_time,           \* Transport.tws_time, then IBClient.tws_time
    out_wire,           \* history: the bytes the client wrote to the socket
    req_pc,             \* "idle" | "writing": a request method is at write_all
    req_cur,            \* the request being written
    req_log,            \* history: the request calls that ended, in order
    codec_pc,           \* a codec call: "off" | "input" | "encoded" | "decoded"
    codec_in,           \* the arguments of the call
    codec_mid,          \* what the encoding side returned
    codec_out,          \* what the decoding side returned for it
    mgr_client,         \* VaultWolfManager.client: "none" | "some" | "gone"
    mgr_next_req_id,    \* VaultWolfManager.next_req_id (AtomicI64)
    mgr_calls,          \* history: calls made on the manager
    mgr_call,           \* the manager call under way and where it is
    mgr_log,            \* history: what each call returned
    pending_map,        \* VaultWolfManager.pending: key -> PendingRequest
    pending_lock,       \* who holds the Mutex of pending: "free" | "event"
    tx,                 \* the oneshot channel of each call, with its history
    rx,                 \* the events the event processor has not received yet
    ib_events,          \* history: how many events the server sent
    unmatched,          \* history: events that found no entry under their key
    ib_sent,            \* history: the requests that reached the server
    next_order_id,      \* SharedState.next_order_id (AtomicI64)
    order_map,          \* SharedState.order_map: order id -> OrderInfo
    submitted,          \* history: the order ids of the place_order sent
    last_status         \* history: the last status sent for each order id

session_vars ==
    << wire, server_closed, frames_sent, read_buf, reader_pc, reader_exit,
       emitted, chan, pending, nrecv, rx_alive, connected, writer, reader_handle,
       reader_fate, abort_requested, client_pc, disconnect_calls,
       shutdown_calls >>

id_vars == << next_req_id, minted, id_calls, last_set >>

conn_vars ==
    << hs_pc, tcp_opens, connect_args, hs_reply, split_buf, connect_result,
       server_version, tws_time >>

req_vars == << out_wire, req_pc, req_cur, req_log >>

codec_vars == << codec_pc, codec_in, codec_mid, codec_out >>

mgr_vars ==
    << mgr_client, mgr_next_req_id, mgr_calls, mgr_call, mgr_log, pending_map,
       pending_lock, tx, rx, ib_events, unmatched, ib_sent, next_order_id,
       order_map, submitted, last_status >>

core_vars == << session_vars, id_vars, conn_vars, req_vars, codec_vars >>

vars == << core_vars, mgr_vars >>

reader_vars == << read_buf, reader_pc, reader_exit, emitted, chan, pending >>

client_vars ==
    << connected, writer, reader_handle, reader_fate, abort_requested,
       client_pc, disconnect_calls, shutdown_calls >>

server_vars == << server_closed, frames_sent >>

\* ------------------------------------------------------------------------
\* The server's side of the wire
\* ------------------------------------------------------------------------
\* build_framed_msg of the tests: the 4-byte big-endian length, then the body.
build_framed_msg(body) == u32_to_be_bytes(Len(body)) \o body

\* "53\0", "62\0": two messages that decode to distinct events.
BodyOpenOrderEnd == << 53, 51, 0 >>
BodyPositionEnd == << 54, 50, 0 >>
\* "5" with no null terminator: a body no decoder accepts.
BodyMalformed == << 53 >>

ValidFrames ==
    { build_framed_msg(BodyOpenOrderEnd), build_framed_msg(BodyPositionEnd),
      build_framed_msg(BodyMalformed) }

\* A header of length zero, and one of length 16 777 216 followed by a byte.
ZeroLengthFrame == << 0, 0, 0, 0 >>
OversizeFrame == << 1, 0, 0, 0, 53 >>

ServerFrames == ValidFrames \cup { ZeroLengthFrame, OversizeFrame }

\* What a server that dies in the middle of a write leaves on the wire.
TruncatedFrames ==
    { SubSeq(build_framed_msg(BodyOpenOrderEnd), 1, 2),
      SubSeq(build_framed_msg(BodyOpenOrderEnd), 1, 5) }

server_send(f) ==
    /\ ~server_closed
    /\ Len(frames_sent) < MaxFrames
    /\ wire' = wire \o f
    /\ frames_sent' = Append(frames_sent, f)
    /\ UNCHANGED << server_closed, reader_vars, nrecv, rx_alive, client_vars,
                    id_vars, conn_vars, req_vars, codec_vars,
                    mgr_vars >>

server_close ==
    /\ ~server_closed
    /\ server_closed' = TRUE
    /\ UNCHANGED << wire, frames_sent, reader_vars, nrecv, rx_alive,
                    client_vars, id_vars, conn_vars, req_vars, codec_vars,
                    mgr_vars >>

server_crash(part) ==
    /\ ~server_closed
    /\ Len(frames_sent) < MaxFrames
    /\ wire' = wire \o part
    /\ server_closed' = TRUE
    /\ UNCHANGED << frames_sent, reader_vars, nrecv, rx_alive, client_vars,
                    id_vars, conn_vars, req_vars, codec_vars,
                    mgr_vars >>

\* ------------------------------------------------------------------------
\* TransportReader::read_message and MessageReader::run
\* ------------------------------------------------------------------------
\* The length the 4-byte header at the front of the buffer announces.
msg_len(buf) == u32_from_be_bytes(SubSeq(buf, 1, HEADER_LEN))

\* A length check that lets a zero length through.
invalid_length_oversize_only(n) == n > MAX_MSG_LEN

\* The length check of read_message.
invalid_length(n) == n = 0 \/ n > MAX_MSG_LEN

\* A channel that hands the newest event out first.
send_newest_first(ch, event) == << event >> \o ch

\* mpsc::UnboundedSender::send: the channel keeps the order of the sends.
send(ch, event) == Append(ch, event)

\* An EOF arm that breaks without sending ConnectionClosed.
run_error_events_silent_eof(kind) ==
    IF kind = "Disconnected"
    THEN << >>
    ELSE << ReaderError(kind), ConnectionClosed >>

\* An error arm that sends ConnectionClosed before the Error event.
run_error_events_closed_first(kind) ==
    IF kind = "Disconnected"
    THEN << ConnectionClosed >>
    ELSE << ConnectionClosed, ReaderError(kind) >>

\* Arms that send ConnectionClosed a second time.
run_error_events_closed_twice(kind) ==
    IF kind = "Disconnected"
    THEN << ConnectionClosed, ConnectionClosed >>
    ELSE << ReaderError(kind), ConnectionClosed, ConnectionClosed >>

\* The events the two error arms of run send before they break.
run_error_events(kind) ==
    IF kind = "Disconnected"
    THEN << ConnectionClosed >>
    ELSE << ReaderError(kind), ConnectionClosed >>

\* A loop that gives up on a frame it could not decode.
run_after_send_break_on_unknown(event, sent) ==
    IF sent /\ event.type # "Unknown" THEN "header" ELSE "done"

\* A reader that goes on after a failed send.
run_after_send_ignores_closed(event, sent) == "header"

\* Where run goes after sending a decoded event: it breaks only when the
\* send failed because the receiver is gone.
run_after_send(event, sent) == IF sent THEN "header" ELSE "done"

\* A channel of capacity 1: a send waits while an event is unconsumed.
send_waits_when_full(ch, received) == Len(ch) - received >= 1

\* UnboundedSender::send is not async: it never waits for the receiver.
send_waits(ch, received) == FALSE

\* read_message returned Err(kind): run sends the arm's events and breaks.
\* A send on a channel whose receiver was dropped fails and queues nothing.
reader_fails(kind) ==
    /\ ~send_waits(chan, nrecv)
    /\ emitted' = emitted \o run_error_events(kind)
    /\ chan' = IF rx_alive THEN chan \o run_error_events(kind) ELSE chan
    /\ reader_pc' = "done"
    /\ reader_exit' = kind
    /\ UNCHANGED << wire, read_buf, pending >>

\* One call of self.reader.read_buf(&mut self.read_buf): some bytes, or 0 at
\* EOF (Disconnected), or an I/O error (Io, through the ? operator).
socket_read ==
    \/ \E n \in 1..Len(wire) :
        /\ read_buf' = read_buf \o SubSeq(wire, 1, n)
        /\ wire' = SubSeq(wire, n + 1, Len(wire))
        /\ UNCHANGED << reader_pc, reader_exit, emitted, chan, pending >>
    \/ /\ wire = << >>
       /\ server_closed
       /\ reader_fails("Disconnected")
    \/ reader_fails("Io")

\* The header loop of read_message, then the length check.
run_read_header ==
    /\ reader_pc = "header"
    /\ IF Len(read_buf) < HEADER_LEN
       THEN socket_read
       ELSE IF invalid_length(msg_len(read_buf))
            THEN reader_fails("Protocol")
            ELSE /\ reader_pc' = "body"
                 /\ UNCHANGED << wire, read_buf, reader_exit, emitted, chan,
                                 pending >>
    /\ UNCHANGED << server_vars, nrecv, rx_alive, client_vars, id_vars, conn_vars, req_vars,
                    codec_vars,
                    mgr_vars >>

\* The event decode_server_msg returned is kept for tx.send; a panic of the
\* decoder unwinds the reader task.
run_decoded(event) ==
    /\ pending' = IF event.ok THEN << event.val >> ELSE << >>
    /\ reader_pc' = IF event.ok THEN "send" ELSE "done"
    /\ reader_exit' = IF event.ok THEN reader_exit ELSE "panicked"

\* The body loop of read_message; with the body complete, the Ok arm of run
\* up to the send: split the frame off the buffer and decode the message.
\* A panic of the decoder unwinds the task.
run_read_body ==
    /\ reader_pc = "body"
    /\ LET total_needed == HEADER_LEN + msg_len(read_buf) IN
       IF Len(read_buf) < total_needed
       THEN socket_read
       ELSE /\ read_buf' = SubSeq(read_buf, total_needed + 1, Len(read_buf))
            /\ run_decoded(decode_server_msg(
                               SubSeq(read_buf, HEADER_LEN + 1, total_needed),
                               server_version))
            /\ UNCHANGED << wire, emitted, chan >>
    /\ UNCHANGED << server_vars, nrecv, rx_alive, client_vars, id_vars, conn_vars, req_vars,
                    codec_vars,
                    mgr_vars >>

\* tx.send(event) of the Ok arm: the event goes to the channel, and run
\* breaks if the send failed.
run_send ==
    /\ reader_pc = "send"
    /\ ~send_waits(chan, nrecv)
    /\ emitted' = Append(emitted, pending[1])
    /\ chan' = IF rx_alive THEN send(chan, pending[1]) ELSE chan
    /\ pending' = << >>
    /\ reader_pc' = run_after_send(pending[1], rx_alive)
    /\ reader_exit' =
           IF run_after_send(pending[1], rx_alive) = "done"
           THEN "receiver_dropped" ELSE reader_exit
    /\ UNCHANGED << wire, read_buf, server_vars, nrecv, rx_alive, client_vars,
                    id_vars, conn_vars, req_vars, codec_vars,
                    mgr_vars >>

\* An aborted task is dropped at the await of a read that would wait: the
\* sender goes with it and nothing more is sent.
reader_cancelled ==
    /\ abort_requested
    /\ \/ reader_pc = "header" /\ Len(read_buf) < HEADER_LEN
       \/ reader_pc = "body" /\ Len(read_buf) < HEADER_LEN + msg_len(read_buf)
    /\ reader_pc' = "done"
    /\ reader_exit' = "aborted"
    /\ UNCHANGED << wire, server_vars, read_buf, emitted, chan, pending, nrecv,
                    rx_alive, client_vars, id_vars, conn_vars, req_vars,
                    codec_vars,
                    mgr_vars >>

\* ------------------------------------------------------------------------
\* The application's end of the event channel
\* ------------------------------------------------------------------------
rx_recv ==
    /\ rx_alive
    /\ nrecv < Len(chan)
    /\ nrecv' = nrecv + 1
    /\ UNCHANGED << wire, server_vars, reader_vars, rx_alive, client_vars,
                    id_vars, conn_vars, req_vars, codec_vars,
                    mgr_vars >>

rx_drop ==
    /\ rx_alive
    /\ rx_alive' = FALSE
    /\ UNCHANGED << wire, server_vars, reader_vars, nrecv, client_vars,
                    id_vars, conn_vars, req_vars, codec_vars,
                    mgr_vars >>

\* ------------------------------------------------------------------------
\* IBClient: disconnect and Drop
\* ------------------------------------------------------------------------
\* A disconnect without the early return.
already_disconnected_never(was_connected) == FALSE

\* A disconnect that does not wait for the reader task.
join_ready_always(pc) == TRUE

\* A Drop that never aborts the reader task.
drop_aborts_never(is_conn, handle) == FALSE

\* A shutdown that sends no FIN and leaves the write half open.
shutdown_keeps_open(w) == w

\* TransportWriter::shutdown: the write half is shut down, which sends the
\* FIN; an error of the shutdown is dropped.
shutdown(w) == "shut"

\* A swap whose store is lost: the flag keeps its value.
swap_lost(flag, value) == flag

\* AtomicBool::swap: the flag becomes the argument.
swap(flag, value) == value

\* connected.swap(false) returned false: disconnect returns at once.
already_disconnected(was_connected) == ~was_connected

\* handle.await completes when the reader task has ended.
join_ready(pc) == pc = "done"

\* The guard of Drop: only a connected client aborts its reader.
drop_aborts(is_conn, handle) == is_conn /\ handle = "some"

disconnect_swap ==
    /\ client_pc = "idle"
    /\ req_pc = "idle"
    /\ disconnect_calls < MaxDisconnectCalls
    /\ disconnect_calls' = disconnect_calls + 1
    /\ connected' = swap(connected, FALSE)
    /\ client_pc' = IF already_disconnected(connected) THEN "idle" ELSE "shutdown"
    /\ UNCHANGED << wire, server_vars, reader_vars, nrecv, rx_alive, writer,
                    reader_handle, reader_fate, abort_requested,
                    shutdown_calls, id_vars, conn_vars, req_vars, codec_vars,
                    mgr_vars >>

disconnect_shutdown ==
    /\ client_pc = "shutdown"
    /\ writer' = shutdown(writer)
    /\ shutdown_calls' = shutdown_calls + 1
    /\ client_pc' = "join"
    /\ UNCHANGED << wire, server_vars, reader_vars, nrecv, rx_alive, connected,
                    reader_handle, reader_fate, abort_requested,
                    disconnect_calls, id_vars, conn_vars, req_vars,
                    codec_vars,
                    mgr_vars >>

disconnect_join ==
    /\ client_pc = "join"
    /\ IF reader_handle = "some"
       THEN /\ join_ready(reader_pc)
            /\ reader_handle' = "none"
            /\ reader_fate' = "joined"
       ELSE UNCHANGED << reader_handle, reader_fate >>
    /\ client_pc' = "idle"
    /\ UNCHANGED << wire, server_vars, reader_vars, nrecv, rx_alive, connected,
                    writer, abort_requested, disconnect_calls, shutdown_calls,
                    id_vars, conn_vars, req_vars, codec_vars,
                    mgr_vars >>

\* impl Drop for IBClient, then the drop of its fields: the OwnedWriteHalf
\* inside the writer shuts the write direction down when it is dropped.
drop_client ==
    /\ client_pc = "idle"
    /\ req_pc = "idle"
    /\ IF drop_aborts(connected, reader_handle)
       THEN /\ reader_handle' = "none"
            /\ reader_fate' = "aborted"
            /\ abort_requested' = (reader_pc # "done")
       ELSE UNCHANGED << reader_handle, reader_fate, abort_requested >>
    /\ writer' = "shut"
    /\ client_pc' = "dropped"
    /\ UNCHANGED << wire, server_vars, reader_vars, nrecv, rx_alive, connected,
                    disconnect_calls, shutdown_calls, id_vars, conn_vars, req_vars,
                    codec_vars,
                    mgr_vars >>

\* ------------------------------------------------------------------------
\* The request-ID counter
\* ------------------------------------------------------------------------
\* A store that is lost: the counter keeps its value.
store_lost(cur, id) == cur

\* AtomicI32::store: the counter becomes the argument.
store(cur, id) == id

\* AtomicI32::fetch_add(1): the addition wraps at the end of the i32 range.
fetch_add(v) == IF v = I32_MAX THEN I32_MIN ELSE v + 1

\* The values the application resets the counter to.
ReqIdInputs == { 1, 100, I32_MAX }

\* The application tasks that share one client by reference.
Tasks == { "t1", "t2" }

call_next_req_id(t) ==
    /\ id_calls < MaxIdCalls
    /\ id_calls' = id_calls + 1
    /\ minted' = Append(minted, [task |-> t, id |-> next_req_id])
    /\ next_req_id' = fetch_add(next_req_id)
    /\ UNCHANGED << last_set, session_vars, conn_vars, req_vars, codec_vars,
                    mgr_vars >>

call_set_next_req_id(id) ==
    /\ id_calls < MaxIdCalls
    /\ id_calls' = id_calls + 1
    /\ next_req_id' = store(next_req_id, id)
    /\ minted' = << >>
    /\ last_set' = << id >>
    /\ UNCHANGED << session_vars, conn_vars, req_vars, codec_vars,
                    mgr_vars >>

\* ------------------------------------------------------------------------
\* IBClient::connect: Transport::connect (TCP, connect request, connect
\* ack), START_API, the split and the spawn of the reader task
\* ------------------------------------------------------------------------
None == [some |-> FALSE, val |-> << >>]
Some(v) == [some |-> TRUE, val |-> v]
unwrap_or(opt, default) == IF opt.some THEN opt.val ELSE default

\* What connect has returned: nothing yet, a client, or an error.
Pending == [ok |-> FALSE, err |-> "pending", what |-> "", detail |-> << >>]
Connected == [ok |-> TRUE, err |-> "", what |-> "", detail |-> << >>]
ConnectErr(kind, what, detail) ==
    [ok |-> FALSE, err |-> kind, what |-> what, detail |-> detail]

\* The arguments of connect: client_id and optional_capabilities ("x").
ConnectArgs ==
    { [client_id |-> 0, caps |-> None], [client_id |-> 7, caps |-> Some(<< 120 >>)] }

\* A version check that has no upper limit.
in_supported_range_no_max(sv) == sv >= MIN_CLIENT_VER

\* (MIN_CLIENT_VER..=MAX_CLIENT_VER).contains(&sv)
in_supported_range(sv) == sv >= MIN_CLIENT_VER /\ sv <= MAX_CLIENT_VER

\* A negative version handled like any other version outside the range.
is_redirect_never(sv) == FALSE

\* sv < 0: the reply is a redirect.
is_redirect(sv) == sv < 0

\* A connect ack that does not read the time field.
connect_ack_time_unread(msg) ==
    LET sv == decode_i32(msg, 0) IN
    IF ~sv.ok THEN ConnectErr("Decoding", "", << >>)
    ELSE IF is_redirect(sv.val)
    THEN ConnectErr("Protocol", "server redirect to", << >>)
    ELSE IF ~in_supported_range(sv.val)
    THEN ConnectErr("Protocol", "unsupported server version", write_display(sv.val))
    ELSE [ok |-> TRUE, sv |-> sv.val, tws_time |-> << >>]

\* The decoding part of Transport::process_connect_ack.
connect_ack(msg) ==
    LET sv == decode_i32(msg, 0) IN
    IF ~sv.ok THEN ConnectErr("Decoding", "", << >>)
    ELSE IF is_redirect(sv.val)
    THEN LET hostport == read_field_str(msg, sv.pos) IN
         IF ~hostport.ok THEN ConnectErr("Decoding", "", << >>)
         ELSE ConnectErr("Protocol", "server redirect to", hostport.val)
    ELSE IF ~in_supported_range(sv.val)
    THEN ConnectErr("Protocol", "unsupported server version", write_display(sv.val))
    ELSE LET time == read_field_str(msg, sv.pos) IN
         IF ~time.ok THEN ConnectErr("Decoding", "", << >>)
         ELSE [ok |-> TRUE, sv |-> sv.val, tws_time |-> time.val]

\* The message Transport::start_api builds.
start_api_message(sv, client_id, optional_capabilities) ==
    LET id == encode_msg_id(<< >>, START_API, sv)
        version == encode_field_i32(id, 2)
        cid == encode_field_i32(version, client_id)
        caps == IF sv >= OPTIONAL_CAPABILITIES
                THEN encode_field_str(cid, unwrap_or(optional_capabilities, << >>))
                ELSE cid
    IN  finalize(caps)

\* build_framed_response: null-terminated fields in a frame.
RECURSIVE fields_body(_)
fields_body(fields) ==
    IF fields = << >> THEN << >>
    ELSE fields[1] \o << 0 >> \o fields_body(Tail(fields))

build_framed_response(fields) == build_framed_msg(fields_body(fields))

\* "20260101 12:00:00", "h:1"
TimeField ==
    << 50, 48, 50, 54, 48, 49, 48, 49, 32, 49, 50, 58, 48, 48, 58, 48, 48 >>
HostPortField == << 104, 58, 49 >>

\* The replies of the servers of the model: accepted versions (protobuf
\* gate not reached, reached), versions out of range, redirects (with and
\* without the host:port field), a version that is not a number, a reply
\* without the time field, a header that announces one byte more than the
\* body has, and headers with an invalid length.
HandshakeReplies ==
    { build_framed_response(<< write_display(v), TimeField >>) :
          v \in { 100, 176, 203, 99, 204, 0 } }
    \cup { build_framed_response(<< write_display(0 - 1), HostPortField >>),
           build_framed_response(<< write_display(0 - 1) >>),
           build_framed_response(<< << 120 >>, TimeField >>),
           build_framed_response(<< write_display(176) >>),
           << 0, 0, 0, 23 >> \o fields_body(<< write_display(176), TimeField >>),
           ZeroLengthFrame, OversizeFrame }

\* Every error path of connect drops the Transport, and the socket with it.
connect_fails(e) ==
    /\ hs_pc' = "failed"
    /\ connect_result' = e
    /\ writer' = IF writer = "none" THEN "none" ELSE "shut"

\* TcpStream::connect(addr), and its map_err.
tcp_connect(args) ==
    /\ hs_pc = "tcp"
    /\ connect_args' = args
    /\ tcp_opens' = tcp_opens + 1
    /\ \/ /\ hs_pc' = "request"
          /\ writer' = "open"
          /\ UNCHANGED connect_result
       \/ connect_fails(ConnectErr("Connection", "failed to connect", << >>))
    /\ UNCHANGED << wire, server_vars, reader_vars, nrecv, rx_alive, connected,
                    reader_handle, reader_fate, abort_requested, client_pc,
                    disconnect_calls, shutdown_calls, id_vars, hs_reply,
                    split_buf,
                    server_version, tws_time, req_vars, codec_vars,
                    mgr_vars >>

\* Transport::send_connect_request.
send_connect_request ==
    /\ hs_pc = "request"
    /\ LET bytes == build_connect_request IN
       IF ~bytes.ok
       THEN connect_fails(ConnectErr("Encoding", "", << >>)) /\ UNCHANGED out_wire
       ELSE \/ /\ out_wire' = out_wire \o bytes.val
               /\ hs_pc' = "ack"
               /\ UNCHANGED << connect_result, writer >>
            \/ /\ connect_fails(ConnectErr("Connection",
                                  "failed to send connect request", << >>))
               /\ UNCHANGED out_wire
    /\ UNCHANGED << wire, server_vars, reader_vars, nrecv, rx_alive, connected,
                    reader_handle, reader_fate, abort_requested, client_pc,
                    disconnect_calls, shutdown_calls, id_vars, tcp_opens,
                    connect_args, hs_reply, split_buf, server_version,
                    tws_time, req_pc,
                    req_cur, req_log, codec_vars,
                    mgr_vars >>

\* The server answers the connect request.
server_handshake(reply) ==
    /\ hs_pc = "ack"
    /\ ~server_closed
    /\ hs_reply = << >>
    /\ hs_reply' = << reply >>
    /\ wire' = wire \o reply
    /\ UNCHANGED << server_vars, reader_vars, nrecv, rx_alive, client_vars,
                    id_vars, hs_pc, tcp_opens, connect_args, split_buf,
                    connect_result,
                    server_version, tws_time, req_vars, codec_vars,
                    mgr_vars >>

\* One call of self.reader.read_buf in Transport::read_message: some bytes,
\* or 0 at EOF (Disconnected), or an I/O error (Io, through the ? operator).
transport_read ==
    \/ \E n \in 1..Len(wire) :
        /\ read_buf' = read_buf \o SubSeq(wire, 1, n)
        /\ wire' = SubSeq(wire, n + 1, Len(wire))
        /\ UNCHANGED << hs_pc, connect_result, writer >>
    \/ /\ wire = << >>
       /\ server_closed
       /\ connect_fails(ConnectErr("Disconnected", "connection closed", << >>))
       /\ UNCHANGED << wire, read_buf >>
    \/ /\ connect_fails(ConnectErr("Io", "", << >>))
       /\ UNCHANGED << wire, read_buf >>

\* Transport::process_connect_ack: read_message, then the decoding.
process_connect_ack ==
    /\ hs_pc = "ack"
    /\ IF Len(read_buf) < HEADER_LEN
       THEN transport_read /\ UNCHANGED << server_version, tws_time >>
       ELSE IF invalid_length(msg_len(read_buf))
       THEN /\ connect_fails(ConnectErr("Protocol", "invalid message length",
                                         << >>))
            /\ UNCHANGED << wire, read_buf, server_version, tws_time >>
       ELSE LET total_needed == HEADER_LEN + msg_len(read_buf) IN
            IF Len(read_buf) < total_needed
            THEN transport_read /\ UNCHANGED << server_version, tws_time >>
            ELSE LET msg == SubSeq(read_buf, HEADER_LEN + 1, total_needed)
                     ack == connect_ack(msg)
                 IN  /\ read_buf' = SubSeq(read_buf, total_needed + 1,
                                           Len(read_buf))
                     /\ UNCHANGED wire
                     /\ IF ack.ok
                        THEN /\ server_version' = ack.sv
                             /\ tws_time' = ack.tws_time
                             /\ hs_pc' = "start_api"
                             /\ UNCHANGED << connect_result, writer >>
                        ELSE /\ connect_fails(ack)
                             /\ UNCHANGED << server_version, tws_time >>
    /\ UNCHANGED << server_vars, reader_pc, reader_exit, emitted, chan, pending,
                    nrecv, rx_alive, connected, reader_handle, reader_fate,
                    abort_requested, client_pc, disconnect_calls,
                    shutdown_calls, id_vars, tcp_opens, connect_args, hs_reply,
                    split_buf,
                    req_vars, codec_vars,
                    mgr_vars >>

\* A split that gives the reader half a new, empty buffer.
into_split_empty_buffer(buf) == << >>

\* Transport::into_split: the reader half takes the transport's read_buf,
\* with the bytes read behind the handshake reply.
into_split(buf) == buf

\* The rest of IBClient::connect: Transport::start_api, into_split, the
\* spawn of the reader task and the construction of the client.
connect_start_api ==
    /\ hs_pc = "start_api"
    /\ LET bytes == start_api_message(server_version, connect_args.client_id,
                                      connect_args.caps)
           spawned == /\ out_wire' = out_wire \o bytes.val
                      /\ hs_pc' = "done"
                      /\ connect_result' = Connected
                      /\ reader_pc' = "header"
                      /\ rx_alive' = TRUE
                      /\ connected' = TRUE
                      /\ reader_handle' = "some"
                      /\ client_pc' = "idle"
                      /\ next_req_id' = 1
                      /\ read_buf' = into_split(read_buf)
                      /\ split_buf' = read_buf
                      /\ UNCHANGED writer
           failed(e) == /\ connect_fails(e)
                        /\ UNCHANGED << out_wire, reader_pc, rx_alive, connected,
                                        reader_handle, client_pc, next_req_id,
                                        read_buf, split_buf >>
       IN  IF ~bytes.ok
           THEN failed(ConnectErr("Encoding", "", << >>))
           ELSE \/ spawned
                \/ failed(ConnectErr("Connection", "failed to send message",
                                     << >>))
    /\ UNCHANGED << wire, server_vars, reader_exit, emitted, chan,
                    pending, nrecv, reader_fate, abort_requested, disconnect_calls,
                    shutdown_calls, minted, id_calls, last_set, tcp_opens,
                    connect_args, hs_reply, server_version,
                    tws_time, req_pc,
                    req_cur, req_log, codec_vars,
                    mgr_vars >>

\* ------------------------------------------------------------------------
\* IBClient: the request methods, send_encoded, send_raw and
\* TransportWriter::send_message
\* ------------------------------------------------------------------------
\* A method without a version check, one with a check, and one of the WSH
\* methods.
ReqMethods ==
    { "req_current_time", "req_current_time_in_millis", "req_wsh_meta_data" }

\* The req_id argument of the calls of the model.
ReqIdArg == 1

\* IBClient::check_server_version succeeds.
check_server_version(sv, min_version) == ~(sv < min_version)

\* The check_server_version call a method starts with, TRUE without one.
method_check(m, sv) ==
    IF m = "req_current_time_in_millis"
    THEN check_server_version(sv, CURRENT_TIME_IN_MILLIS)
    ELSE TRUE

\* The fields a method encodes after self.encoder().
method_body(m, sv) ==
    IF m = "req_current_time"
    THEN encode_field_i32(encode_msg_id(<< >>, REQ_CURRENT_TIME, sv), 1)
    ELSE IF m = "req_current_time_in_millis"
    THEN encode_msg_id(<< >>, REQ_CURRENT_TIME_IN_MILLIS, sv)
    ELSE encode_field_i32(encode_msg_id(<< >>, REQ_WSH_META_DATA, sv), ReqIdArg)

\* A send error that keeps the kind of the I/O error.
map_send_err_io(e) == e

\* The map_err of TransportWriter::send_message.
map_send_err(e) == "Connection"

\* A write_all that returns after the first write.
write_all_done_after_first(written, total) == written > 0

\* write_all returns when every byte has been written.
write_all_done(written, total) == written = total

\* The sizes one write on the socket may accept: all that is left, or 5 bytes.
WriteSizes(left) == { n \in { 5, left } : n <= left }

NoRequest == [method |-> "", frame |-> << >>, start |-> 0, written |-> 0]

\* The record of a call that ended: what it wrote and what it returned.
Ended(m, frame, start, written, result) ==
    [method |-> m, frame |-> frame, start |-> start, written |-> written,
     result |-> result]

\* A client that reports itself connected whatever the flag says.
is_connected_always(flag) == TRUE

\* IBClient::is_connected: the load of the connected flag.
is_connected(flag) == flag

\* A request method up to its first await: the version check, the encoding,
\* finalize, and the connected check of send_raw.
request_call(m) ==
    /\ hs_pc = "done"
    /\ client_pc = "idle"
    /\ req_pc = "idle"
    /\ Len(req_log) < MaxRequests
    /\ LET bytes == finalize(method_body(m, server_version))
           returns(result) ==
               /\ req_log' = Append(req_log,
                                 Ended(m, << >>, Len(out_wire), 0, result))
               /\ UNCHANGED << req_pc, req_cur >>
       IN  IF ~method_check(m, server_version) THEN returns("Encoding")
           ELSE IF ~bytes.ok THEN returns("Encoding")
           ELSE IF ~is_connected(connected) THEN returns("Connection")
           ELSE /\ req_pc' = "writing"
                /\ req_cur' = [method |-> m, frame |-> bytes.val,
                               start |-> Len(out_wire), written |-> 0]
                /\ UNCHANGED req_log
    /\ UNCHANGED << session_vars, id_vars, conn_vars, out_wire, codec_vars,
                    mgr_vars >>

\* self.writer.write_all(data).await: one write of the loop, or its failure.
request_write ==
    /\ req_pc = "writing"
    /\ LET total == Len(req_cur.frame)
           ends(written, result) ==
               /\ req_log' = Append(req_log,
                                 Ended(req_cur.method, req_cur.frame,
                                       req_cur.start, written, result))
               /\ req_pc' = "idle"
               /\ req_cur' = NoRequest
       IN  \/ \E n \in WriteSizes(total - req_cur.written) :
               LET written == req_cur.written + n IN
               /\ out_wire' = out_wire
                      \o SubSeq(req_cur.frame, req_cur.written + 1, written)
               /\ IF write_all_done(written, total)
                  THEN ends(written, "Ok")
                  ELSE /\ req_cur' = [req_cur EXCEPT !.written = written]
                       /\ UNCHANGED << req_pc, req_log >>
           \/ /\ ends(req_cur.written, map_send_err("Io"))
              /\ UNCHANGED out_wire
    /\ UNCHANGED << session_vars, id_vars, conn_vars, codec_vars,
                    mgr_vars >>

\* The application drops the future of a request method while write_all is
\* waiting for the socket.
request_cancel ==
    /\ req_pc = "writing"
    /\ req_log' = Append(req_log,
                         Ended(req_cur.method, req_cur.frame, req_cur.start,
                               req_cur.written, "Cancelled"))
    /\ req_pc' = "idle"
    /\ req_cur' = NoRequest
    /\ UNCHANGED << session_vars, id_vars, conn_vars, out_wire, codec_vars,
                    mgr_vars >>

\* ------------------------------------------------------------------------
\* Specifications
\* ------------------------------------------------------------------------
\* The state IBClient::connect returns: handshake done, reader task spawned.
InitSession ==
    /\ wire = << >>
    /\ server_closed = FALSE
    /\ frames_sent = << >>
    /\ read_buf = << >>
    /\ reader_pc = "header"
    /\ reader_exit = "none"
    /\ emitted = << >>
    /\ chan = << >>
    /\ pending = << >>
    /\ nrecv = 0
    /\ rx_alive = TRUE
    /\ connected = TRUE
    /\ writer = "open"
    /\ reader_handle = "some"
    /\ reader_fate = "none"
    /\ abort_requested = FALSE
    /\ client_pc = "idle"
    /\ disconnect_calls = 0
    /\ shutdown_calls = 0

InitIds ==
    /\ next_req_id = 1
    /\ minted = << >>
    /\ id_calls = 0
    /\ last_set = << >>

\* The connection the session of InitSession came from: client_id 0, no
\* optional capabilities, a server of version SessionServerVersion.
InitConnected ==
    /\ hs_pc = "done"
    /\ tcp_opens = 1
    /\ connect_args = [client_id |-> 0, caps |-> None]
    /\ hs_reply = << build_framed_response(
                         << write_display(SessionServerVersion), TimeField >>) >>
    /\ split_buf = << >>
    /\ connect_result = Connected
    /\ server_version = SessionServerVersion
    /\ tws_time = TimeField
    /\ out_wire = build_connect_request.val
                      \o start_api_message(SessionServerVersion, 0, None).val
    /\ req_pc = "idle"
    /\ req_cur = NoRequest
    /\ req_log = << >>

\* ------------------------------------------------------------------------
\* Request messages with version-gated fields
\* ------------------------------------------------------------------------
\* encode_field_i64, for values within i32 (the integers of the model).
encode_field_i64(buf, value) == encode_field_i32(buf, value)

\* encode_field_max_f64: None is the empty field.
encode_field_max_f64(buf, value) ==
    IF value.some THEN encode_field_f64(buf, value.val) ELSE buf \o << 0 >>

\* encode_condition: the type code, "a" or "o", then the fields of the
\* variant.
conjunction_text(cond) ==
    IF cond.is_conjunction_connection THEN << 97 >> ELSE << 111 >>

encode_condition_head(buf, type, cond) ==
    encode_field_str(encode_field_i32(buf, type), conjunction_text(cond))

encode_operator_head(buf, type, cond) ==
    encode_field_bool(encode_condition_head(buf, type, cond), cond.is_more)

encode_contract_head(buf, type, cond) ==
    encode_field_str(
        encode_field_i32(encode_operator_head(buf, type, cond), cond.con_id),
        cond.exchange)

encode_condition(buf, cond) ==
    IF cond.variant = "Price"
    THEN encode_field_i32(
             encode_field_f64(encode_contract_head(buf, 1, cond), cond.price),
             cond.trigger_method)
    ELSE IF cond.variant = "Time"
    THEN encode_field_str(encode_operator_head(buf, 3, cond), cond.time)
    ELSE IF cond.variant = "Margin"
    THEN encode_field_i32(encode_operator_head(buf, 4, cond), cond.percent)
    ELSE IF cond.variant = "Execution"
    THEN encode_field_str(
             encode_field_str(
                 encode_field_str(encode_condition_head(buf, 5, cond),
                                  cond.sec_type),
                 cond.exchange),
             cond.symbol)
    ELSE IF cond.variant = "Volume"
    THEN encode_field_i32(encode_contract_head(buf, 6, cond), cond.volume)
    ELSE encode_field_max_f64(encode_contract_head(buf, 7, cond),
                              cond.change_percent)

\* encode_tag_value_list: one string field "k1=v1;k2=v2;".
RECURSIVE combined(_)
combined(tags) ==
    IF tags = << >> THEN << >>
    ELSE tags[1][1] \o << 61 >> \o tags[1][2] \o << 59 >> \o combined(Tail(tags))

encode_tag_value_list(buf, tags) == encode_field_str(buf, combined(tags))

\* impl Display for SecType, for the two types of the model.
sec_type_to_string(s) ==
    IF s = "Combo" THEN << 66, 65, 71 >> ELSE << 83, 84, 75 >>

\* value.as_ref() of an Option<SecType>, Option<Right> or Option<Action>, as
\* the text its Display writes.
sec_type_text(opt) ==
    IF opt.some THEN [some |-> TRUE, val |-> sec_type_to_string(opt.val)]
    ELSE [some |-> FALSE, val |-> << >>]

right_text(opt) ==
    IF opt.some THEN [some |-> TRUE, val |-> right_to_string(opt.val)]
    ELSE [some |-> FALSE, val |-> << >>]

action_text(opt) ==
    IF opt.some THEN [some |-> TRUE, val |-> action_to_string(opt.val)]
    ELSE [some |-> FALSE, val |-> << >>]

\* The combo legs of a BAG contract: the count, then four fields a leg.
RECURSIVE encode_legs(_, _)
encode_legs(buf, legs) ==
    IF legs = << >> THEN buf
    ELSE encode_legs(
             encode_field_str(
                 encode_field_opt_display(
                     encode_field_i64(encode_field_i64(buf, legs[1].con_id),
                                      legs[1].ratio),
                     action_text(legs[1].action)),
                 legs[1].exchange),
             Tail(legs))

encode_combo_legs(buf, contract) ==
    IF contract.sec_type.some /\ contract.sec_type.val = "Combo"
    THEN IF contract.combo_legs.some
         THEN encode_legs(encode_field_i32(buf, Len(contract.combo_legs.val)),
                          contract.combo_legs.val)
         ELSE encode_field_i32(buf, 0)
    ELSE buf

\* The contract fields symbol .. local_symbol, shared by the two requests.
encode_contract_fields(buf, contract) ==
    LET b1 == encode_field_str(buf, contract.symbol)
        b2 == encode_field_opt_display(b1, sec_type_text(contract.sec_type))
        b3 == encode_field_str(b2, contract.last_trade_date_or_contract_month)
        b4 == encode_field_max_f64(b3, contract.strike)
        b5 == encode_field_opt_display(b4, right_text(contract.right))
        b6 == encode_field_str(b5, contract.multiplier)
        b7 == encode_field_str(b6, contract.exchange)
        b8 == encode_field_str(b7, contract.primary_exchange)
        b9 == encode_field_str(b8, contract.currency)
    IN  encode_field_str(b9, contract.local_symbol)

\* A request that writes the regulatory snapshot flag at every version.
req_mkt_data_ungated(sv, a) ==
    LET b1 == encode_field_i32(
                  encode_field_i32(encode_msg_id(<< >>, REQ_MKT_DATA, sv), 11),
                  a.ticker_id)
        b3 == encode_contract_fields(encode_field_i64(b1, a.contract.con_id),
                                     a.contract)
        b5 == encode_combo_legs(encode_field_str(b3, a.contract.trading_class),
                                a.contract)
        b7 == encode_field_bool(
                  encode_field_str(encode_field_bool(b5, FALSE), a.generic_ticks),
                  a.snapshot)
    IN  encode_tag_value_list(encode_field_bool(b7, a.regulatory_snapshot),
                              a.options)

\* IBClient::req_mkt_data: the bytes handed to send_encoded.
req_mkt_data(sv, a) ==
    LET b1 == encode_field_i32(
                  encode_field_i32(encode_msg_id(<< >>, REQ_MKT_DATA, sv), 11),
                  a.ticker_id)
        b2 == IF sv >= REQ_MKT_DATA_CONID
              THEN encode_field_i64(b1, a.contract.con_id) ELSE b1
        b3 == encode_contract_fields(b2, a.contract)
        b4 == IF sv >= TRADING_CLASS
              THEN encode_field_str(b3, a.contract.trading_class) ELSE b3
        b5 == encode_combo_legs(b4, a.contract)
        dnc == a.contract.delta_neutral_contract
        b6 == IF sv >= DELTA_NEUTRAL
              THEN IF dnc.some
                   THEN encode_field_f64(
                            encode_field_f64(
                                encode_field_i64(encode_field_bool(b5, TRUE),
                                                 dnc.val.con_id),
                                dnc.val.delta),
                            dnc.val.price)
                   ELSE encode_field_bool(b5, FALSE)
              ELSE b5
        b7 == encode_field_bool(encode_field_str(b6, a.generic_ticks), a.snapshot)
        b8 == IF sv >= REQ_SMART_COMPONENTS
              THEN encode_field_bool(b7, a.regulatory_snapshot) ELSE b7
    IN  IF sv >= LINKING THEN encode_tag_value_list(b8, a.options) ELSE b8

\* IBClient::req_historical_data: the bytes handed to send_encoded.
req_historical_data(sv, a) ==
    LET b0 == encode_msg_id(<< >>, REQ_HISTORICAL_DATA, sv)
        b1 == encode_field_i32(
                  IF sv < SYNT_REALTIME_BARS THEN encode_field_i32(b0, 6) ELSE b0,
                  a.ticker_id)
        b2 == IF sv >= TRADING_CLASS
              THEN encode_field_i64(b1, a.contract.con_id) ELSE b1
        b3 == encode_contract_fields(b2, a.contract)
        b4 == IF sv >= TRADING_CLASS
              THEN encode_field_str(b3, a.contract.trading_class) ELSE b3
        b5 == encode_field_str(
                  encode_field_str(
                      encode_field_str(
                          encode_field_bool(b4, a.contract.include_expired),
                          a.end_date_time),
                      a.bar_size_setting),
                  a.duration_str)
        b6 == encode_field_i32(
                  encode_field_str(encode_field_bool(b5, a.use_rth), a.what_to_show),
                  a.format_date)
        b7 == encode_combo_legs(b6, a.contract)
        b8 == IF sv >= SYNT_REALTIME_BARS
              THEN encode_field_bool(b7, a.keep_up_to_date) ELSE b7
    IN  IF sv >= LINKING THEN encode_tag_value_list(b8, a.options) ELSE b8

\* The CancelOrderRequest of the protobuf form, serialized: the order id as
\* the varint field 1, the OrderCancel as the length-delimited field 2, its
\* text fields left out when empty.
pb_text_field(number, text) ==
    IF text = << >> THEN << >> ELSE << number * 8 + 2, Len(text) >> \o text

build_cancel_order_request(id, order_cancel) ==
    LET cancel == pb_text_field(1, order_cancel.manual_order_cancel_time)
                      \o pb_text_field(2, order_cancel.ext_operator)
                      \o (IF order_cancel.manual_order_indicator.some
                          THEN << 24, order_cancel.manual_order_indicator.val >>
                          ELSE << >>)
    IN  << 8, id >> \o << 18, Len(cancel) >> \o cancel

\* IBClient::cancel_order: the protobuf form from PROTOBUF_PLACE_ORDER on,
\* else the fields by version.
cancel_order(sv, a) ==
    IF sv >= PROTOBUF_PLACE_ORDER
    THEN encode_raw_int(<< >>, CANCEL_ORDER + PROTOBUF_MSG_ID)
             \o build_cancel_order_request(a.id, a.order_cancel)
    ELSE LET b0 == encode_msg_id(<< >>, CANCEL_ORDER, sv)
             b1 == encode_field_i64(
                       IF sv < CME_TAGGING_FIELDS_IN_OPEN_ORDER
                       THEN encode_field_i32(b0, 1) ELSE b0,
                       a.id)
             b2 == IF sv >= MANUAL_ORDER_TIME
                   THEN encode_field_str(b1, a.order_cancel.manual_order_cancel_time)
                   ELSE b1
             b3 == IF sv >= RFQ_FIELDS /\ sv < UNDO_RFQ_FIELDS
                   THEN encode_field_max_i32(
                            encode_field_str(encode_field_str(b2, << >>), << >>),
                            Absent)
                   ELSE b2
         IN  IF sv >= CME_TAGGING_FIELDS
             THEN encode_field_max_i32(
                      encode_field_str(b3, a.order_cancel.ext_operator),
                      a.order_cancel.manual_order_indicator)
             ELSE b3

\* ------------------------------------------------------------------------
\* The codec on its own: one call of an encoder, then of its decoder
\* ------------------------------------------------------------------------
\* No call, and no result yet.
NoCall == [kind |-> "none"]
NoResult == [ok |-> FALSE, err |-> "none"]

\* n bytes "A".
Filler(n) == [i \in 1..n |-> 65]

\* The header part of read_message: the length it parses and checks.
read_header(buf) ==
    IF Len(buf) < HEADER_LEN THEN Err("Disconnected")
    ELSE IF invalid_length(msg_len(buf)) THEN Err("Protocol")
    ELSE Value(msg_len(buf))

\* TransportReader::read_message on a socket that holds buf and then ends:
\* the body, and the number of bytes taken off the buffer.
read_message(buf) ==
    LET hdr == read_header(buf) IN
    IF ~hdr.ok THEN hdr
    ELSE IF Len(buf) < HEADER_LEN + hdr.val THEN Err("Disconnected")
    ELSE Ok(SubSeq(buf, HEADER_LEN + 1, HEADER_LEN + hdr.val),
            HEADER_LEN + hdr.val)

\* Bodies: empty, one null byte, a message, bytes above 127, and lengths
\* that need the second byte of the header.
FrameBodies ==
    { << >>, << 0 >>, BodyOpenOrderEnd, << 255, 0, 128 >>,
      Filler(255), Filler(256), Filler(300) }

\* Body lengths around the limits of the header.
FrameLengths ==
    { 0, 1, 65536, MAX_MSG_LEN - 1, MAX_MSG_LEN, MAX_MSG_LEN + 1 }

FrameCalls ==
    { [kind |-> "frame", body |-> b] : b \in FrameBodies }
    \cup { [kind |-> "header", len |-> n] : n \in FrameLengths }

\* finalize of an encoder whose buffer holds the body behind the reserved
\* header bytes.
codec_finalize ==
    /\ codec_pc = "input"
    /\ codec_in.kind = "frame"
    /\ codec_mid' = finalize(codec_in.body)
    /\ codec_pc' = "encoded"
    /\ UNCHANGED << codec_in, codec_out, session_vars, id_vars, conn_vars,
                    req_vars,
                    mgr_vars >>

\* read_message on the frame finalize returned.
codec_read_message ==
    /\ codec_pc = "encoded"
    /\ codec_in.kind = "frame"
    /\ codec_mid.ok
    /\ codec_out' = read_message(codec_mid.val)
    /\ codec_pc' = "decoded"
    /\ UNCHANGED << codec_in, codec_mid, session_vars, id_vars, conn_vars,
                    req_vars,
                    mgr_vars >>

\* The length check and the header of finalize for a body of a given length.
codec_finalize_header ==
    /\ codec_pc = "input"
    /\ codec_in.kind = "header"
    /\ codec_mid' = finalize_header(codec_in.len)
    /\ codec_pc' = "encoded"
    /\ UNCHANGED << codec_in, codec_out, session_vars, id_vars, conn_vars,
                    req_vars,
                    mgr_vars >>

\* The header part of read_message on the header finalize wrote.
codec_read_header ==
    /\ codec_pc = "encoded"
    /\ codec_in.kind = "header"
    /\ codec_mid.ok
    /\ codec_out' = read_header(codec_mid.val)
    /\ codec_pc' = "decoded"
    /\ UNCHANGED << codec_in, codec_mid, session_vars, id_vars, conn_vars,
                    req_vars,
                    mgr_vars >>

\* Message IDs on both sides of the gate; the ID is followed by a version
\* field, as in every message.
MsgIdCalls ==
    { [kind |-> "msg_id", sv |-> sv, msg_id |-> id] :
          sv \in { MIN_CLIENT_VER, PROTOBUF - 1, PROTOBUF, MAX_CLIENT_VER },
          id \in { 0, 1, 9, START_API, 255, 256, 0 - 1, I32_MAX, I32_MIN } }

\* encode_msg_id on a new encoder, then a field.
codec_encode_msg_id ==
    /\ codec_pc = "input"
    /\ codec_in.kind = "msg_id"
    /\ LET id == encode_msg_id(<< >>, codec_in.msg_id, codec_in.sv) IN
       codec_mid' = [ok |-> TRUE, id |-> id, val |-> encode_field_i32(id, 2)]
    /\ codec_pc' = "encoded"
    /\ UNCHANGED << codec_in, codec_out, session_vars, id_vars, conn_vars,
                    req_vars,
                    mgr_vars >>

\* decode_msg_id of a decoder over the bytes, with the same server version.
codec_decode_msg_id ==
    /\ codec_pc = "encoded"
    /\ codec_in.kind = "msg_id"
    /\ codec_out' = decode_msg_id(codec_mid.val, 0, codec_in.sv)
    /\ codec_pc' = "decoded"
    /\ UNCHANGED << codec_in, codec_mid, session_vars, id_vars, conn_vars,
                    req_vars,
                    mgr_vars >>

\* Values of the field types: strings (empty, printable, with a tab, with
\* control bytes, with a null byte), integers up to the limits of i32,
\* bools, Option<i32>, f64 (infinities, zero, 1.5, 1.23, -0.05, 100), and
\* the enums Right and Action, plain and optional.
FieldValues(type) ==
    IF type = "str"
    THEN { << >>, << 104, 105 >>, << 97, 9, 98 >>, << 1 >>, << 127 >>,
           << 65, 0, 66 >> }
    ELSE IF type = "i32" THEN { 0, 42, 0 - 1, I32_MAX, I32_MIN }
    ELSE IF type = "bool" THEN { TRUE, FALSE }
    ELSE IF type = "max_i32" THEN { Absent, Some(0), Some(I32_MAX) }
    ELSE IF type = "f64"
    THEN { F64Inf(FALSE), F64Inf(TRUE), F64(FALSE, 0, 0), F64(FALSE, 15, 0 - 1),
           F64(FALSE, 123, 0 - 2), F64(TRUE, 5, 0 - 2), F64(FALSE, 1, 2) }
    ELSE IF type = "right" THEN { "Call", "Put", "Undefined" }
    ELSE IF type = "action" THEN { "Buy", "Sell", "SellShort" }
    ELSE { Absent, Some("Call"), Some("Put"), Some("Undefined") }

FieldTypes ==
    { "str", "i32", "bool", "max_i32", "f64", "right", "action", "opt_right" }

FieldCalls(type) ==
    { [kind |-> "field", type |-> type, value |-> v] : v \in FieldValues(type) }

\* The encoder method of a field type, and the decoder method of the same.
encode_value(buf, type, value) ==
    IF type = "str" THEN encode_field_str(buf, value)
    ELSE IF type = "i32" THEN encode_field_i32(buf, value)
    ELSE IF type = "bool" THEN encode_field_bool(buf, value)
    ELSE IF type = "max_i32" THEN encode_field_max_i32(buf, value)
    ELSE IF type = "f64" THEN encode_field_f64(buf, value)
    ELSE IF type = "right" THEN encode_field_display(buf, right_to_string(value))
    ELSE IF type = "action" THEN encode_field_display(buf, action_to_string(value))
    ELSE encode_field_opt_display(
             buf, IF value.some THEN Some(right_to_string(value.val)) ELSE None)

decode_value(type, data, pos) ==
    IF type = "str" THEN decode_string(data, pos)
    ELSE IF type = "i32" THEN decode_i32(data, pos)
    ELSE IF type = "bool" THEN decode_bool(data, pos)
    ELSE IF type = "max_i32" THEN decode_i32_max(data, pos)
    ELSE IF type = "f64" THEN decode_f64(data, pos)
    ELSE IF type = "right" THEN decode_enum_right(data, pos)
    ELSE IF type = "action" THEN decode_enum_action(data, pos)
    ELSE decode_enum_opt_right(data, pos)

\* One field on a new encoder, then an i32 field behind it.
codec_encode_field ==
    /\ codec_pc = "input"
    /\ codec_in.kind = "field"
    /\ LET field == encode_value(<< >>, codec_in.type, codec_in.value) IN
       codec_mid' = [ok |-> TRUE, field |-> field,
                     val |-> encode_field_i32(field, 7)]
    /\ codec_pc' = "encoded"
    /\ UNCHANGED << codec_in, codec_out, session_vars, id_vars, conn_vars,
                    req_vars,
                    mgr_vars >>

\* The decoder method of the type on the bytes of the encoder.
codec_decode_field ==
    /\ codec_pc = "encoded"
    /\ codec_in.kind = "field"
    /\ codec_out' = decode_value(codec_in.type, codec_mid.val, 0)
    /\ codec_pc' = "decoded"
    /\ UNCHANGED << codec_in, codec_mid, session_vars, id_vars, conn_vars,
                    req_vars,
                    mgr_vars >>

\* The server versions of the dispatched frames: below every gate of the
\* decoders, between them, and with raw message IDs.
DispatchVersions == { MIN_CLIENT_VER, SessionServerVersion, PROTOBUF }

\* The fields the server sends after the message ID, per message and server
\* version: "1" is a version field, 42 an order id, 7 a request id.
AsciiFields(id, sv) ==
    LET one == write_display(1)
        price == << 49, 53, 48, 46, 53 >>
        symbol == << 65, 65, 80, 76 >>
    IN  IF id = ORDER_STATUS
        THEN (IF sv < MARKET_CAP_PRICE THEN << one >> ELSE << >>)
             \o << write_display(42), << 70, 105, 108, 108, 101, 100 >>,
                   write_display(100), write_display(0), price,
                   write_display(9999), write_display(0), price, one, << >> >>
             \o (IF sv >= MARKET_CAP_PRICE THEN << write_display(0) >> ELSE << >>)
        ELSE IF id = ERR_MSG
        THEN << write_display(2), one, write_display(502), symbol >>
             \o (IF sv >= ADVANCED_ORDER_REJECT THEN << << >> >> ELSE << >>)
             \o (IF sv >= ERROR_TIME THEN << write_display(1700000000) >>
                 ELSE << >>)
        ELSE IF id = OPEN_ORDER
        THEN (IF sv < ORDER_CONTAINER THEN << write_display(34) >> ELSE << >>)
             \o << write_display(42), write_display(265598), symbol >>
        ELSE IF id = EXECUTION_DATA
        THEN (IF sv < LAST_LIQUIDITY THEN << write_display(10) >> ELSE << >>)
             \o << write_display(7), write_display(42), write_display(265598),
                   symbol >>
        ELSE IF id = NEXT_VALID_ID THEN << one, write_display(1001) >>
        ELSE IF id = MANAGED_ACCTS THEN << one, symbol >>
        ELSE IF id = CURRENT_TIME THEN << one, write_display(1700000000) >>
        ELSE IF id = EXECUTION_DATA_END THEN << one, write_display(7) >>
        ELSE IF id = FAMILY_CODES THEN << one, symbol, symbol >>
        ELSE << >>

\* The body of the ASCII form of a message.
AsciiBody(id, sv) == encode_msg_id(<< >>, id, sv) \o fields_body(AsciiFields(id, sv))

\* Protobuf payloads: empty, one varint field (number 1000, value 42), one
\* length-delimited field (number 1001, "OK"), and three that do not parse
\* (a key with no value, a varint that does not end, a length past the end).
ProtoPayloads ==
    { << >>, << 192, 62, 42 >>, << 202, 62, 2, 79, 75 >> }

BadProtoPayloads == { << 8 >>, << 255 >>, << 18, 5, 79 >> }

\* IDs with no per-message decoder, at most and above PROTOBUF_MSG_ID.
UndecodedIds == { 0 - 1, 0, 22, 60, 110, 199, 200 }

UndecodedProtoIds ==
    { PROTOBUF_MSG_ID + NEXT_VALID_ID, PROTOBUF_MSG_ID + POSITION_END,
      PROTOBUF_MSG_ID + 199, 1000 }

ProtobufIds ==
    { ORDER_STATUS, ERR_MSG, OPEN_ORDER, EXECUTION_DATA, OPEN_ORDER_END,
      EXECUTION_DATA_END }

\* Each followed message as the server sends it at one server version.
WellFormedBodies(sv) == { AsciiBody(id, sv) : id \in FieldDecodedIds }

\* The same with one field more at the end.
TrailingBodies(sv) ==
    { AsciiBody(id, sv) \o << 49, 0 >> : id \in FieldDecodedIds }

\* The same with the last byte cut off: a field with no terminator, or a
\* raw message ID of three bytes.
TruncatedBodies(sv) ==
    { SubSeq(AsciiBody(id, sv), 1, Len(AsciiBody(id, sv)) - 1) :
          id \in FieldDecodedIds }

\* Messages whose first field is read as a number, with "x" in its place.
MalformedNumberBodies(sv) ==
    { encode_msg_id(<< >>, id, sv) \o << 120, 0 >>
          \o fields_body(Tail(AsciiFields(id, sv))) :
          id \in { ERR_MSG, NEXT_VALID_ID, MANAGED_ACCTS, CURRENT_TIME,
                   EXECUTION_DATA_END, FAMILY_CODES } }

\* FAMILY_CODES with the counts 0, 2 (and one pair missing) and -1.
CountBodies(sv) ==
    { encode_msg_id(<< >>, FAMILY_CODES, sv) \o fields_body(<< write_display(n) >>) :
          n \in { 0, 2, 0 - 1 } }

\* The messages with fields, the last field missing.
MissingFieldBodies(sv) ==
    { encode_msg_id(<< >>, id, sv)
          \o fields_body(SubSeq(AsciiFields(id, sv), 1, Len(AsciiFields(id, sv)) - 1)) :
          id \in { i \in FieldDecodedIds : AsciiFields(i, sv) # << >> } }

\* MANAGED_ACCTS with a byte in the account list that is not UTF-8.
InvalidUtf8Bodies(sv) ==
    { encode_msg_id(<< >>, MANAGED_ACCTS, sv) \o << 49, 0, 255, 0 >> }

\* Frames of IDs with no decoder.
UndecodedBodies(sv) ==
    { encode_msg_id(<< >>, id, sv) \o << 49, 0 >> : id \in UndecodedIds }
    \cup { encode_msg_id(<< >>, id, sv) \o p :
               id \in UndecodedProtoIds, p \in ProtoPayloads }

\* Protobuf frames of the six IDs, with payloads that parse and that do not.
ProtoBodies(sv) ==
    { encode_msg_id(<< >>, PROTOBUF_MSG_ID + id, sv) \o p :
          id \in ProtobufIds, p \in ProtoPayloads }

BadProtoBodies(sv) ==
    { encode_msg_id(<< >>, PROTOBUF_MSG_ID + id, sv) \o p :
          id \in ProtobufIds, p \in BadProtoPayloads }

\* Bodies too short for a message ID, or with a text ID that is no number.
NoIdBodies ==
    { << >>, << 0, 0 >>, << 255, 0, 49, 0 >>, << 97, 98, 99, 0 >>, << 52, 50 >> }

\* Frame bodies handed to the dispatcher.
DispatchBodies(sv) ==
    WellFormedBodies(sv) \cup TrailingBodies(sv) \cup TruncatedBodies(sv)
    \cup MalformedNumberBodies(sv) \cup InvalidUtf8Bodies(sv)
    \cup CountBodies(sv) \cup MissingFieldBodies(sv)
    \cup UndecodedBodies(sv) \cup ProtoBodies(sv) \cup BadProtoBodies(sv)
    \cup NoIdBodies

DispatchCalls ==
    { [kind |-> "dispatch", sv |-> sv, body |-> b] :
          sv \in DispatchVersions, b \in UNION { DispatchBodies(v) : v \in DispatchVersions } }

\* decode_server_msg on a frame body: the event, and the result of
\* decode_server_msg_inner it was made from.
codec_decode_server_msg ==
    /\ codec_pc = "input"
    /\ codec_in.kind = "dispatch"
    /\ codec_mid' = decode_server_msg_inner(codec_in.body, codec_in.sv)
    /\ codec_out' = decode_server_msg(codec_in.body, codec_in.sv)
    /\ codec_pc' = "decoded"
    /\ UNCHANGED << codec_in, session_vars, id_vars, conn_vars, req_vars,
                    mgr_vars >>

\* The server versions of the requests: the first supported one, and each
\* gate of the three requests with the version before it.  The builders read
\* nothing of the client but server_version, so the gates below
\* MIN_CLIENT_VER are exercised as well.
RequestGates ==
    { DELTA_NEUTRAL, REQ_MKT_DATA_CONID, TRADING_CLASS, LINKING,
      REQ_SMART_COMPONENTS, SYNT_REALTIME_BARS, MANUAL_ORDER_TIME, RFQ_FIELDS,
      UNDO_RFQ_FIELDS, CME_TAGGING_FIELDS, CME_TAGGING_FIELDS_IN_OPEN_ORDER,
      PROTOBUF, PROTOBUF_PLACE_ORDER }

RequestVersions ==
    { MIN_CLIENT_VER } \cup RequestGates \cup { g - 1 : g \in RequestGates }

\* Contracts: a stock, and a combo with one leg and a delta-neutral contract.
StockContract ==
    [con_id |-> 265598, symbol |-> << 65, 65, 80, 76 >>,
     sec_type |-> Some("Stock"), last_trade_date_or_contract_month |-> << >>,
     strike |-> Absent, right |-> Absent, multiplier |-> << >>,
     exchange |-> << 83, 77, 65, 82, 84 >>, primary_exchange |-> << >>,
     currency |-> << 85, 83, 68 >>, local_symbol |-> << >>,
     trading_class |-> << >>, include_expired |-> FALSE,
     combo_legs |-> Absent, delta_neutral_contract |-> Absent]

ComboContract ==
    [con_id |-> 0, symbol |-> << 65, 65, 80, 76 >>,
     sec_type |-> Some("Combo"), last_trade_date_or_contract_month |-> << >>,
     strike |-> Some(F64(FALSE, 15, 0 - 1)), right |-> Some("Call"),
     multiplier |-> << >>, exchange |-> << 83, 77, 65, 82, 84 >>,
     primary_exchange |-> << >>, currency |-> << 85, 83, 68 >>,
     local_symbol |-> << >>, trading_class |-> << 65 >>,
     include_expired |-> TRUE,
     combo_legs |-> Some(<< [con_id |-> 7, ratio |-> 1, action |-> Some("Buy"),
                            exchange |-> << 83, 77, 65, 82, 84 >>] >>),
     delta_neutral_contract |->
         Some([con_id |-> 9, delta |-> F64(FALSE, 5, 0 - 1),
               price |-> F64(FALSE, 1, 2)])]

\* The arguments of the calls of each request.
RequestArgs(method) ==
    IF method = "req_mkt_data"
    THEN { [ticker_id |-> 1, contract |-> c, generic_ticks |-> << 50, 51, 51 >>,
            snapshot |-> FALSE, regulatory_snapshot |-> r, options |-> o] :
               c \in { StockContract, ComboContract }, r \in BOOLEAN,
               o \in { << >>, << << << 107 >>, << 118 >> >> >> } }
    ELSE IF method = "req_historical_data"
    THEN { [ticker_id |-> 1, contract |-> c, end_date_time |-> << >>,
            duration_str |-> << 49, 32, 68 >>,
            bar_size_setting |-> << 49, 32, 104 >>,
            what_to_show |-> << 84 >>, use_rth |-> TRUE, format_date |-> 1,
            keep_up_to_date |-> k, options |-> << >>] :
               c \in { StockContract, ComboContract }, k \in BOOLEAN }
    ELSE { [id |-> 42,
            order_cancel |-> [manual_order_cancel_time |-> t,
                              ext_operator |-> << 111, 112 >>,
                              manual_order_indicator |-> i]] :
               t \in { << >>, << 50, 48, 50, 54 >> }, i \in { Absent, Some(1) } }

RequestMethods == { "req_mkt_data", "req_historical_data", "cancel_order" }

\* The message a request method builds.
request_message(method, sv, a) ==
    IF method = "req_mkt_data" THEN req_mkt_data(sv, a)
    ELSE IF method = "req_historical_data" THEN req_historical_data(sv, a)
    ELSE cancel_order(sv, a)

RequestCalls(method) ==
    { [kind |-> "request", method |-> method, sv |-> sv, args |-> a] :
          sv \in RequestVersions, a \in RequestArgs(method) }

\* One call of a request method on a client whose server_version is
\* codec_in.sv: the message handed to send_encoded.
codec_request ==
    /\ codec_pc = "input"
    /\ codec_in.kind = "request"
    /\ codec_out' = Value(request_message(codec_in.method, codec_in.sv,
                                          codec_in.args))
    /\ codec_pc' = "decoded"
    /\ UNCHANGED << codec_in, codec_mid, session_vars, id_vars, conn_vars,
                    req_vars,
                    mgr_vars >>

\* ------------------------------------------------------------------------
\* VaultWolfManager: the pending requests, the orders and the event
\* processor
\* ------------------------------------------------------------------------
\* AtomicI64::new(1000): the first request id of a manager.
FirstReqId == 1000

\* The key of the positions request, which has no request id.
PositionsKey == 0 - 1

PendingKeys ==
    { PositionsKey } \cup FirstReqId..(FirstReqId + MaxRequestCalls)

Serials == 1..(MaxRequestCalls + MaxPlaceCalls)

\* The order ids a NextValidId event of the model carries.
NextValidIds == { 1, 5 }

OrderIds == 0..(5 + MaxPlaceCalls)

OrderStatuses == { "Submitted", "Filled" }

RequestOps ==
    { "request_historical_data", "request_account_summary",
      "request_positions" }

\* The PendingRequest variant a request method registers, and the events
\* that feed and end it.
kind_of(op) ==
    IF op = "request_historical_data" THEN "HistoricalData"
    ELSE IF op = "request_account_summary" THEN "AccountSummary"
    ELSE "Positions"

data_event(kind) == IF kind = "Positions" THEN "Position" ELSE kind

end_event(kind) ==
    IF kind = "HistoricalData" THEN "HistoricalDataEnd"
    ELSE IF kind = "AccountSummary" THEN "AccountSummaryEnd"
    ELSE "PositionEnd"

DataEvents == { "HistoricalData", "AccountSummary", "Position" }

EndEvents == { "HistoricalDataEnd", "AccountSummaryEnd", "PositionEnd" }

\* The variant the arm of an event matches on.
kind_matched(type) ==
    IF type \in { "HistoricalData", "HistoricalDataEnd" } THEN "HistoricalData"
    ELSE IF type \in { "AccountSummary", "AccountSummaryEnd" }
    THEN "AccountSummary"
    ELSE "Positions"

NoPending == [kind |-> "none", serial |-> 0]

PendingRequest(kind, serial) == [kind |-> kind, serial |-> serial]

NoOrder == [status |-> "none"]

OrderInfo(status) == [status |-> status]

MgrEvent(type, id, status) == [type |-> type, id |-> id, status |-> status]

NoMgrCall == [op |-> "none", pc |-> "idle", key |-> 0, serial |-> 0]

NoReturn == [op |-> "none", key |-> 0, outcome |-> "none"]

\* A oneshot channel: the value sent, whether the sender was dropped
\* unsent, whether the receiver is still there; history: the sends made on
\* it and the data events added to its request.
NewChannel ==
    [value |-> "none", dropped |-> FALSE, rx_open |-> FALSE, sends |-> 0,
     data |-> 0]

\* A remove that leaves the entry in the map.
remove_keeps(map, key) == map

\* HashMap::remove on the pending map, HashMap::insert on both maps.
remove(map, key) == [map EXCEPT ![key] = NoPending]

insert(map, key, value) == [map EXCEPT ![key] = value]

\* tx.send(value): the receiver gets the value if it is still there.
send_result(t, value) ==
    [t EXCEPT !.sends = @ + 1,
              !.value = IF t.rx_open THEN value ELSE @]

\* The key an event looks up in the pending map.
event_key(e) ==
    IF e.type \in { "Position", "PositionEnd" } THEN PositionsKey ELSE e.id

\* process_event takes the lock of pending for these events.
takes_pending_lock(e) ==
    \/ e.type \in DataEvents \cup EndEvents
    \/ e.type = "Error" /\ e.id >= 0

\* The pending map after process_event(e): Error with a non-negative req_id
\* and the End events remove the entry of their key.
pending_after(e, map) ==
    IF e.type = "Error" /\ e.id >= 0 THEN remove(map, e.id)
    ELSE IF e.type \in EndEvents THEN remove(map, event_key(e))
    ELSE map

\* The oneshot channels after process_event(e) found entry under the key of
\* e: Error sends Err, the End event of the variant sends Ok, an End event
\* of another variant drops the sender, a data event of the variant adds to
\* the entry.
channels_after(e, entry, chans) ==
    IF ~takes_pending_lock(e) \/ entry.kind = "none" THEN chans
    ELSE IF e.type = "Error"
    THEN [chans EXCEPT ![entry.serial] = send_result(@, "err")]
    ELSE IF e.type \in EndEvents
    THEN IF entry.kind = kind_matched(e.type)
         THEN [chans EXCEPT ![entry.serial] = send_result(@, "ok")]
         ELSE [chans EXCEPT ![entry.serial].dropped = TRUE]
    ELSE IF entry.kind = kind_matched(e.type)
    THEN [chans EXCEPT ![entry.serial].data = @ + 1]
    ELSE chans

\* The OrderStatus arm: the record of the order is updated if there is one.
orders_after(e, orders) ==
    IF e.type = "OrderStatus" /\ orders[e.id].status # "none"
    THEN [orders EXCEPT ![e.id] = OrderInfo(e.status)]
    ELSE orders

\* The NextValidId arm: next_order_id.store(order_id).
order_id_after(e, cur) ==
    IF e.type = "NextValidId" THEN store(cur, e.id) ELSE cur

\* VaultWolfManager::new.
InitNew ==
    /\ mgr_client = "none"
    /\ mgr_next_req_id = FirstReqId
    /\ mgr_calls = 0
    /\ mgr_call = NoMgrCall
    /\ mgr_log = [s \in Serials |-> NoReturn]
    /\ pending_map = [k \in PendingKeys |-> NoPending]
    /\ pending_lock = "free"
    /\ tx = [s \in Serials |-> NewChannel]
    /\ rx = << >>
    /\ ib_events = 0
    /\ unmatched = 0
    /\ ib_sent = {}
    /\ next_order_id = 0
    /\ order_map = [id \in OrderIds |-> NoOrder]
    /\ submitted = << >>
    /\ last_status = [id \in OrderIds |-> "none"]

\* connect_to_ib: the client and the event processor; the server sends its
\* NextValidId.
connect_to_ib(order_id) ==
    /\ mgr_client = "none"
    /\ mgr_call = NoMgrCall
    /\ mgr_client' = "some"
    /\ rx' = Append(rx, MgrEvent("NextValidId", order_id, ""))
    /\ UNCHANGED << mgr_next_req_id, mgr_calls, mgr_call, mgr_log,
                    pending_map, pending_lock, tx, ib_events, ib_sent,
                    next_order_id, order_map, submitted, last_status,
                    unmatched,
                    core_vars >>

\* disconnect_from_ib, at its return: the client is gone and the event
\* processor, which was awaited, has drained the channel.
disconnect_from_ib ==
    /\ mgr_client = "some"
    /\ mgr_call = NoMgrCall
    /\ rx = << >>
    /\ mgr_client' = "gone"
    /\ UNCHANGED << mgr_next_req_id, mgr_calls, mgr_call, mgr_log,
                    pending_map, pending_lock, tx, rx, ib_events, ib_sent,
                    next_order_id, order_map, submitted, last_status,
                    unmatched,
                    core_vars >>

\* A manager call returns: its receiver, if it had one, is dropped.
mgr_returns(outcome) ==
    /\ mgr_log' = [mgr_log EXCEPT ![mgr_call.serial] =
                       [op |-> mgr_call.op, key |-> mgr_call.key,
                        outcome |-> outcome]]
    /\ mgr_call' = NoMgrCall

\* The head of the three request methods: the request id, then the entry in
\* the pending map under the lock. An entry the insert replaces is dropped
\* with its sender.
request_register(op) ==
    /\ mgr_call = NoMgrCall
    /\ mgr_calls < MaxRequestCalls
    /\ pending_lock = "free"
    /\ LET serial == mgr_calls + 1
           key == IF op = "request_positions" THEN PositionsKey
                  ELSE mgr_next_req_id
           old == pending_map[key]
           opened == [tx EXCEPT ![serial].rx_open = TRUE]
       IN  /\ mgr_calls' = serial
           /\ mgr_next_req_id' = IF op = "request_positions"
                                 THEN mgr_next_req_id
                                 ELSE mgr_next_req_id + 1
           /\ pending_map' = insert(pending_map, key,
                                    PendingRequest(kind_of(op), serial))
           /\ tx' = IF old.kind = "none" THEN opened
                    ELSE [opened EXCEPT ![old.serial].dropped = TRUE]
           /\ mgr_call' = [op |-> op, pc |-> "send", key |-> key,
                           serial |-> serial]
    /\ UNCHANGED << mgr_client, mgr_log, pending_lock, rx, ib_events, ib_sent,
                    next_order_id, order_map, submitted, last_status,
                    unmatched,
                    core_vars >>

\* The map_err of the send: request_historical_data removes its entry if
\* try_lock gets the lock, the other two methods remove nothing.
pending_after_send_failure(op, map, key, lock) ==
    IF op = "request_historical_data" /\ lock = "free" THEN remove(map, key)
    ELSE map

\* client_mut()? and the await of the client's request method.
request_send ==
    /\ mgr_call.pc = "send"
    /\ mgr_call.op \in RequestOps
    /\ \/ /\ mgr_client # "some"
          /\ mgr_returns("Not connected to IB")
          /\ tx' = [tx EXCEPT ![mgr_call.serial].rx_open = FALSE]
          /\ UNCHANGED << pending_map, ib_sent >>
       \/ /\ mgr_client = "some"
          /\ mgr_call' = [mgr_call EXCEPT !.pc = "wait"]
          /\ ib_sent' = ib_sent \cup { [op |-> mgr_call.op, key |-> mgr_call.key] }
          /\ UNCHANGED << pending_map, tx, mgr_log >>
       \/ /\ mgr_client = "some"
          /\ mgr_returns("request failed")
          /\ pending_map' = pending_after_send_failure(
                                mgr_call.op, pending_map, mgr_call.key,
                                pending_lock)
          /\ tx' = [tx EXCEPT ![mgr_call.serial].rx_open = FALSE]
          /\ UNCHANGED ib_sent
    /\ UNCHANGED << mgr_client, mgr_next_req_id, mgr_calls, pending_lock, rx,
                    ib_events, next_order_id, order_map, submitted,
                    last_status, unmatched,
                    core_vars >>

\* tokio::time::timeout(.., rx).await and the two map_err behind it.
request_wait ==
    /\ mgr_call.pc = "wait"
    /\ LET t == tx[mgr_call.serial] IN
       \/ t.value = "ok" /\ mgr_returns("Ok")
       \/ t.value = "err" /\ mgr_returns("IB Error")
       \/ t.value = "none" /\ t.dropped /\ mgr_returns("Event processor dropped")
       \/ t.value = "none" /\ ~t.dropped /\ mgr_returns("timed out")
    /\ tx' = [tx EXCEPT ![mgr_call.serial].rx_open = FALSE]
    /\ UNCHANGED << mgr_client, mgr_next_req_id, mgr_calls, pending_map,
                    pending_lock, rx, ib_events, ib_sent, next_order_id,
                    order_map, submitted, last_status, unmatched,
                    core_vars >>

\* The head of place_market_order, place_limit_order and place_stop_order,
\* which differ in the order they build only: next_order_id.fetch_add(1).
place_fetch_id ==
    /\ mgr_call = NoMgrCall
    /\ mgr_calls < MaxPlaceCalls
    /\ mgr_calls' = mgr_calls + 1
    /\ next_order_id' = next_order_id + 1
    /\ mgr_call' = [op |-> "place_order", pc |-> "send",
                    key |-> next_order_id, serial |-> mgr_calls + 1]
    /\ UNCHANGED << mgr_client, mgr_next_req_id, mgr_log, pending_map,
                    pending_lock, tx, rx, ib_events, ib_sent, order_map,
                    submitted, last_status, unmatched,
                    core_vars >>

\* client_mut()? and the await of client.place_order.
place_send ==
    /\ mgr_call.pc = "send"
    /\ mgr_call.op = "place_order"
    /\ \/ /\ mgr_client # "some"
          /\ mgr_returns("Not connected to IB")
          /\ UNCHANGED submitted
       \/ /\ mgr_client = "some"
          /\ mgr_call' = [mgr_call EXCEPT !.pc = "store"]
          /\ submitted' = Append(submitted, mgr_call.key)
          /\ UNCHANGED mgr_log
       \/ /\ mgr_client = "some"
          /\ mgr_returns("Place order failed")
          /\ UNCHANGED submitted
    /\ UNCHANGED << mgr_client, mgr_next_req_id, mgr_calls, pending_map,
                    pending_lock, tx, rx, ib_events, ib_sent, next_order_id,
                    order_map, last_status, unmatched,
                    core_vars >>

\* store_order: the record of the order, with status PendingSubmit.
store_order ==
    /\ mgr_call.pc = "store"
    /\ order_map' = insert(order_map, mgr_call.key, OrderInfo("PendingSubmit"))
    /\ mgr_returns("Ok")
    /\ UNCHANGED << mgr_client, mgr_next_req_id, mgr_calls, pending_map,
                    pending_lock, tx, rx, ib_events, ib_sent, next_order_id,
                    submitted, last_status, unmatched,
                    core_vars >>

\* The events the server may send: an error of no request, the data, the
\* end and the error of a request it received, a status of an order it
\* received.
IbEvents ==
    { MgrEvent("Error", PositionsKey, "") }
    \cup { MgrEvent(data_event(kind_of(r.op)), r.key, "") : r \in ib_sent }
    \cup { MgrEvent(end_event(kind_of(r.op)), r.key, "") : r \in ib_sent }
    \cup { MgrEvent("Error", r.key, "") : r \in { q \in ib_sent : q.key >= 0 } }
    \cup { MgrEvent("OrderStatus", submitted[i], st) :
               i \in DOMAIN submitted, st \in OrderStatuses }

ib_event(e) ==
    /\ mgr_client = "some"
    /\ ib_events < MaxMgrEvents
    /\ ib_events' = ib_events + 1
    /\ rx' = Append(rx, e)
    /\ last_status' = IF e.type = "OrderStatus"
                      THEN [last_status EXCEPT ![e.id] = e.status]
                      ELSE last_status
    /\ UNCHANGED << mgr_client, mgr_next_req_id, mgr_calls, mgr_call, mgr_log,
                    pending_map, pending_lock, tx, ib_sent, next_order_id,
                    order_map, submitted, unmatched, core_vars >>

\* The event processor: pending.lock().await of the arms that use the
\* pending map.
event_lock ==
    /\ rx # << >>
    /\ takes_pending_lock(Head(rx))
    /\ pending_lock = "free"
    /\ pending_lock' = "event"
    /\ UNCHANGED << mgr_client, mgr_next_req_id, mgr_calls, mgr_call, mgr_log,
                    pending_map, tx, rx, ib_events, ib_sent, next_order_id,
                    order_map, submitted, last_status, unmatched,
                    core_vars >>

\* rx.recv().await and process_event(event), to the release of its lock.
process_event ==
    /\ rx # << >>
    /\ takes_pending_lock(Head(rx)) => pending_lock = "event"
    /\ rx' = Tail(rx)
    /\ pending_lock' = "free"
    /\ pending_map' = pending_after(Head(rx), pending_map)
    /\ tx' = channels_after(Head(rx), pending_map[event_key(Head(rx))], tx)
    /\ order_map' = orders_after(Head(rx), order_map)
    /\ next_order_id' = order_id_after(Head(rx), next_order_id)
    /\ unmatched' = IF /\ takes_pending_lock(Head(rx))
                        /\ pending_map[event_key(Head(rx))].kind = "none"
                     THEN unmatched + 1 ELSE unmatched
    /\ UNCHANGED << mgr_client, mgr_next_req_id, mgr_calls, mgr_call, mgr_log,
                    ib_events, ib_sent, submitted, last_status, core_vars >>

\* The requests of the application, the answers of the server and the
\* event processor.
NextPending ==
    \/ \E id \in NextValidIds : connect_to_ib(id)
    \/ disconnect_from_ib
    \/ \E op \in RequestOps : request_register(op)
    \/ request_send
    \/ request_wait
    \/ \E e \in IbEvents : ib_event(e)
    \/ event_lock
    \/ process_event

\* The orders of the application, the events of the server about them and
\* the event processor.
NextOrders ==
    \/ \E id \in NextValidIds : connect_to_ib(id)
    \/ disconnect_from_ib
    \/ place_fetch_id
    \/ place_send
    \/ store_order
    \/ \E e \in IbEvents : ib_event(e)
    \/ process_event

\* Order conditions of the six variants: both conjunctions and directions,
\* a contract on "X" or on no exchange, and values that tell the fields
\* apart.
ConditionExchanges == { << 88 >>, << >> }

ConditionPrices == { F64(FALSE, 15, 0 - 1), F64(FALSE, 0, 0) }

ConditionPercents == { Absent, [some |-> TRUE, val |-> F64(TRUE, 25, 0 - 1)] }

OrderConditions ==
    { [variant |-> "Price", is_conjunction_connection |-> c, is_more |-> m,
       con_id |-> 7, exchange |-> x, price |-> p, trigger_method |-> t] :
          c \in BOOLEAN, m \in BOOLEAN, x \in ConditionExchanges,
          p \in ConditionPrices, t \in { 0, 2, 8 } }
    \cup { [variant |-> "Time", is_conjunction_connection |-> c,
            is_more |-> m, time |-> << 50, 48 >>] :
               c \in BOOLEAN, m \in BOOLEAN }
    \cup { [variant |-> "Margin", is_conjunction_connection |-> c,
            is_more |-> m, percent |-> p] :
               c \in BOOLEAN, m \in BOOLEAN, p \in { 0, 30 } }
    \cup { [variant |-> "Execution", is_conjunction_connection |-> c,
            exchange |-> x, sec_type |-> t, symbol |-> << 65 >>] :
               c \in BOOLEAN, x \in ConditionExchanges,
               t \in { << 83 >>, << 88 >> } }
    \cup { [variant |-> "Volume", is_conjunction_connection |-> c,
            is_more |-> m, con_id |-> 7, exchange |-> x, volume |-> v] :
               c \in BOOLEAN, m \in BOOLEAN, x \in ConditionExchanges,
               v \in { 0, 500 } }
    \cup { [variant |-> "PercentChange", is_conjunction_connection |-> c,
            is_more |-> m, con_id |-> 7, exchange |-> x,
            change_percent |-> p] :
               c \in BOOLEAN, m \in BOOLEAN, x \in ConditionExchanges,
               p \in ConditionPercents }

ConditionCalls == { [kind |-> "condition", cond |-> c] : c \in OrderConditions }

\* encode_condition on a new encoder.
codec_encode_condition ==
    /\ codec_pc = "input"
    /\ codec_in.kind = "condition"
    /\ codec_mid' = Value(encode_condition(<< >>, codec_in.cond))
    /\ codec_pc' = "encoded"
    /\ UNCHANGED << codec_in, codec_out, session_vars, id_vars, conn_vars,
                    req_vars,
                    mgr_vars >>

\* The type code and decode_order_condition on the bytes of the encoder.
codec_decode_condition ==
    /\ codec_pc = "encoded"
    /\ codec_in.kind = "condition"
    /\ codec_out' = decode_condition(codec_mid.val, 0)
    /\ codec_pc' = "decoded"
    /\ UNCHANGED << codec_in, codec_mid, session_vars, id_vars, conn_vars,
                    req_vars,
                    mgr_vars >>

InitCodec ==
    /\ InitSession /\ InitIds /\ InitConnected /\ InitNew
    /\ codec_pc = "input"
    /\ \/ codec_in \in FrameCalls
       \/ codec_in \in MsgIdCalls
       \/ \E type \in FieldTypes : codec_in \in FieldCalls(type)
       \/ codec_in \in DispatchCalls
       \/ \E method \in RequestMethods : codec_in \in RequestCalls(method)
       \/ codec_in \in ConditionCalls
    /\ codec_mid = NoResult
    /\ codec_out = NoResult

NextCodec ==
    \/ codec_finalize
    \/ codec_read_message
    \/ codec_finalize_header
    \/ codec_read_header
    \/ codec_encode_msg_id
    \/ codec_decode_msg_id
    \/ codec_encode_field
    \/ codec_decode_field
    \/ codec_decode_server_msg
    \/ codec_request
    \/ codec_encode_condition
    \/ codec_decode_condition

SpecCodec == InitCodec /\ [][NextCodec]_vars

\* No codec call is under way.
InitCodecOff ==
    /\ codec_pc = "off"
    /\ codec_in = NoCall
    /\ codec_mid = NoResult
    /\ codec_out = NoResult

Init == InitSession /\ InitIds /\ InitConnected /\ InitCodecOff /\ InitNew

\* The state at the call of IBClient::connect: no socket, no client, no
\* reader task, no receiver.
InitConnect ==
    /\ wire = << >>
    /\ server_closed = FALSE
    /\ frames_sent = << >>
    /\ read_buf = << >>
    /\ reader_pc = "unspawned"
    /\ reader_exit = "none"
    /\ emitted = << >>
    /\ chan = << >>
    /\ pending = << >>
    /\ nrecv = 0
    /\ rx_alive = FALSE
    /\ connected = FALSE
    /\ writer = "none"
    /\ reader_handle = "none"
    /\ reader_fate = "none"
    /\ abort_requested = FALSE
    /\ client_pc = "none"
    /\ disconnect_calls = 0
    /\ shutdown_calls = 0
    /\ hs_pc = "tcp"
    /\ tcp_opens = 0
    /\ connect_args = [client_id |-> 0, caps |-> None]
    /\ hs_reply = << >>
    /\ split_buf = << >>
    /\ connect_result = Pending
    /\ server_version = 0
    /\ tws_time = << >>
    /\ out_wire = << >>
    /\ req_pc = "idle"
    /\ req_cur = NoRequest
    /\ req_log = << >>

InitClient == InitConnect /\ InitIds /\ InitCodecOff /\ InitNew

\* The manager of the application from its construction on.
SpecPending == Init /\ [][NextPending]_vars

SpecOrders == Init /\ [][NextOrders]_vars

Next ==
    \/ \E f \in ServerFrames : server_send(f)
    \/ server_close
    \/ \E part \in TruncatedFrames : server_crash(part)
    \/ run_read_header
    \/ run_read_body
    \/ run_send
    \/ reader_cancelled
    \/ rx_recv
    \/ rx_drop
    \/ disconnect_swap
    \/ disconnect_shutdown
    \/ disconnect_join
    \/ drop_client

Spec == Init /\ [][Next]_vars

\* The same steps under the scheduling a disconnect relies on: the caller
\* keeps polling the disconnect it awaits, the runtime keeps polling the
\* reader task, whose reads complete when bytes or the EOF are there (an I/O
\* error is an accident the schedule does not owe), and the server closes
\* its end once it has seen the client's FIN. Whatever of these is pending
\* eventually takes its step.
frame_complete == Len(read_buf) >= HEADER_LEN + msg_len(read_buf)

\* A read of the reader task that completes without an I/O error.
reader_reads ==
    /\ \/ run_read_header
       \/ reader_pc = "body" /\ ~frame_complete /\ run_read_body
    /\ reader_exit' # "Io"

\* The reader task holding a whole frame decodes it and leaves the read.
reader_decodes ==
    /\ reader_pc = "body"
    /\ frame_complete
    /\ reader_pc' \in { "send", "done" }

server_close_after_fin == server_close /\ writer = "shut"

scheduled ==
    \/ disconnect_shutdown
    \/ disconnect_join
    \/ reader_reads
    \/ run_send
    \/ server_close_after_fin

SpecDisconnect ==
    /\ Init
    /\ [][Next]_vars
    /\ WF_vars(scheduled)
    /\ WF_reader_pc(reader_decodes)

NextIds ==
    \/ \E t \in Tasks : call_next_req_id(t)
    \/ \E id \in ReqIdInputs : call_set_next_req_id(id)

SpecIds == Init /\ [][NextIds]_vars

\* The reader task and the two ends it talks to. The send of the reader is
\* a plain call inside a task the runtime keeps polling: once it can run, it
\* runs. The application receives when it likes, or never.
NextChannel ==
    \/ \E f \in ServerFrames : server_send(f)
    \/ server_close
    \/ run_read_header
    \/ run_read_body
    \/ run_send
    \/ rx_recv
    \/ rx_drop

SpecChannel == Init /\ [][NextChannel]_vars /\ WF_vars(run_send)

\* A connection from the call of connect on: the handshake, the requests of
\* the application, and the end of the client.
NextClient ==
    \/ \E args \in ConnectArgs : tcp_connect(args)
    \/ send_connect_request
    \/ \E reply \in HandshakeReplies : server_handshake(reply)
    \/ process_connect_ack
    \/ connect_start_api
    \/ \E m \in ReqMethods : request_call(m)
    \/ request_write
    \/ request_cancel
    \/ disconnect_swap
    \/ disconnect_shutdown
    \/ disconnect_join
    \/ drop_client
    \/ server_close
    \/ run_read_header
    \/ reader_cancelled

SpecClient == InitClient /\ [][NextClient]_vars

\* The hand-off from the handshake to the reader task: a server that answers
\* with an accepted version and writes its frames behind the reply, the
\* connect call, and the reader task.
AcceptedReplies ==
    { build_framed_response(<< write_display(v), TimeField >>) :
          v \in { MIN_CLIENT_VER, SessionServerVersion } }

server_send_behind_reply(f) == hs_reply # << >> /\ server_send(f)

NextHandoff ==
    \/ \E args \in ConnectArgs : tcp_connect(args)
    \/ send_connect_request
    \/ \E reply \in AcceptedReplies : server_handshake(reply)
    \/ process_connect_ack
    \/ connect_start_api
    \/ \E f \in ServerFrames : server_send_behind_reply(f)
    \/ server_close
    \/ run_read_header
    \/ run_read_body
    \/ run_send

SpecHandoff == InitClient /\ [][NextHandoff]_vars

\* One session from the call of connect to the return of disconnect, with
\* everything that can happen to the connection in between: frames from the
\* server, its close, a read error, the drop of the receiver, requests and
\* their failed sends.
SessionArgs == { [client_id |-> 0, caps |-> None] }

server_send_in_session(f) == hs_pc = "done" /\ server_send(f)

NextSession ==
    \/ \E args \in SessionArgs : tcp_connect(args)
    \/ send_connect_request
    \/ \E reply \in AcceptedReplies : server_handshake(reply)
    \/ process_connect_ack
    \/ connect_start_api
    \/ server_send_in_session(build_framed_msg(BodyOpenOrderEnd))
    \/ server_close
    \/ run_read_header
    \/ run_read_body
    \/ run_send
    \/ rx_drop
    \/ \E m \in ReqMethods : request_call(m)
    \/ request_write
    \/ disconnect_swap
    \/ disconnect_shutdown
    \/ disconnect_join

SpecSession == InitClient /\ [][NextSession]_vars

\* ------------------------------------------------------------------------
\* What the frames of the model stand for, stated apart from the decoder
\* ------------------------------------------------------------------------
IsPrefix(a, b) == Len(a) <= Len(b) /\ a = SubSeq(b, 1, Len(a))

Last(s) == s[Len(s)]

IsBadFrame(f) == f \in { ZeroLengthFrame, OversizeFrame }

\* The event each well-framed message of the model is to be delivered as.
EventOf(f) ==
    CASE f = build_framed_msg(BodyOpenOrderEnd) -> OpenOrderEnd
      [] f = build_framed_msg(BodyPositionEnd) -> PositionEnd
      [] f = build_framed_msg(BodyMalformed) -> Unknown(0 - 1, BodyMalformed)

\* The events of the frames up to the first frame with an invalid header.
RECURSIVE ServerEvents(_)
ServerEvents(frames) ==
    IF frames = << >> \/ IsBadFrame(Head(frames)) THEN << >>
    ELSE << EventOf(Head(frames)) >> \o ServerEvents(Tail(frames))

\* An event decoded from a frame, as opposed to one the reader task made up.
IsFrameEvent(e) == e.type \notin { "ConnectionClosed", "Error" }

FrameEventsOf(s) == SelectSeq(s, IsFrameEvent)

IsClosed(e) == e = ConnectionClosed

CountClosed(s) == Len(SelectSeq(s, IsClosed))

IsReaderError(e) == e.type = "Error"

CountReaderErrors(s) == Len(SelectSeq(s, IsReaderError))

\* disconnect() was called on a connected client and has returned.
DisconnectReturned == ~connected /\ client_pc \in { "idle", "dropped" }

\* ------------------------------------------------------------------------
\* Claims
\* ------------------------------------------------------------------------

\* C1: the events on the event channel that come from frames appear in the
\* order the server sent those frames, whatever way the bytes were split
\* across reads: they are a prefix of the events of the frames sent, and the
\* application receives the channel's events front first.
C1_EventsInServerOrder ==
    /\ IsPrefix(FrameEventsOf(chan), ServerEvents(frames_sent))
    /\ nrecv <= Len(chan)

C1_Witness ==
    /\ nrecv = 2
    /\ chan[1] = PositionEnd
    /\ chan[2] = OpenOrderEnd

\* C2: when a read returns EOF the reader task sends ConnectionClosed as
\* its last event and ends; with the receiver alive the channel's last
\* event is ConnectionClosed.
C2_EofEmitsConnectionClosed ==
    reader_exit = "Disconnected" =>
        /\ reader_pc = "done"
        /\ Len(emitted) >= 1
        /\ Last(emitted) = ConnectionClosed
        /\ CountReaderErrors(emitted) = 0
        /\ rx_alive => (Len(chan) >= 1 /\ Last(chan) = ConnectionClosed)

C2_Witness ==
    /\ reader_exit = "Disconnected"
    /\ server_closed
    /\ rx_alive
    /\ chan = << OpenOrderEnd, ConnectionClosed >>

\* C3: when a read fails with a transport error (an I/O error or an invalid
\* frame length) the reader task sends exactly one Error event naming the
\* error, then ConnectionClosed, and ends with nothing sent after them.
C3_ReadErrorEmitsErrorThenClosed ==
    reader_exit \in { "Io", "Protocol" } =>
        /\ reader_pc = "done"
        /\ Len(emitted) >= 2
        /\ emitted[Len(emitted) - 1] = ReaderError(reader_exit)
        /\ Last(emitted) = ConnectionClosed
        /\ CountReaderErrors(emitted) = 1
        /\ rx_alive =>
              /\ Len(chan) >= 2
              /\ chan[Len(chan) - 1] = ReaderError(reader_exit)
              /\ Last(chan) = ConnectionClosed
              /\ CountReaderErrors(chan) = 1

C3_Witness ==
    /\ reader_exit = "Io"
    /\ rx_alive
    /\ chan = << PositionEnd, ReaderError("Io"), ConnectionClosed >>

\* C4 as claimed: every session whose reader task has ended has produced
\* exactly one ConnectionClosed, as its last event.
C4_Original ==
    reader_pc = "done" =>
        /\ CountClosed(emitted) = 1
        /\ Last(emitted) = ConnectionClosed

\* C4 as amended: ConnectionClosed is sent at most once, nothing is sent
\* after it, and a reader task that has ended has sent it exactly when it
\* ended on EOF or on a transport error; a task aborted by the drop of the
\* client or stopped by a dropped receiver has sent none.
C4_ConnectionClosedAtMostOnceAndLast ==
    /\ CountClosed(emitted) <= 1
    /\ CountClosed(emitted) = 1 =>
          (Last(emitted) = ConnectionClosed /\ reader_pc = "done")
    /\ IsPrefix(chan, emitted)
    /\ reader_pc = "done" =>
          (CountClosed(emitted) = 1
              <=> reader_exit \in { "Disconnected", "Io", "Protocol" })

C4_Witness ==
    /\ DisconnectReturned
    /\ client_pc = "idle"
    /\ reader_exit = "Disconnected"
    /\ CountClosed(chan) = 1
    /\ Len(chan) = 3

\* C5: a frame that cannot be decoded becomes an Unknown event and nothing
\* else happens: the reader task does not end because of it (with the
\* receiver alive only an abort ends it there), and the event that follows
\* an Unknown is the one the next frame stands for.
C5_UnknownIsRecoverable ==
    /\ (reader_pc = "done" /\ Len(emitted) >= 1 /\ Last(emitted).type = "Unknown"
            /\ rx_alive)
          => reader_exit = "aborted"
    /\ \A i \in 2..Len(emitted) :
          (emitted[i - 1].type = "Unknown" /\ IsFrameEvent(emitted[i]))
              => (i <= Len(frames_sent) /\ emitted[i] = EventOf(frames_sent[i]))

C5_Witness ==
    /\ chan = << Unknown(0 - 1, BodyMalformed), OpenOrderEnd >>
    /\ nrecv = 2
    /\ reader_pc = "header"

\* C6: a frame whose length header is zero or above 16 777 215 fails the
\* session with a Protocol error: the reader never starts on the body of such
\* a frame, no event comes from it or from anything after it, and the reader
\* task has ended with the invalid header still at the front of its buffer.
C6_InvalidLengthFailsSession ==
    /\ reader_pc = "body" =>
          (msg_len(read_buf) >= 1 /\ msg_len(read_buf) <= MAX_MSG_LEN)
    /\ Len(FrameEventsOf(emitted)) <= Len(ServerEvents(frames_sent))
    /\ reader_exit = "Protocol" =>
          /\ reader_pc = "done"
          /\ Len(ServerEvents(frames_sent)) < Len(frames_sent)
          /\ FrameEventsOf(emitted) = ServerEvents(frames_sent)
          /\ SubSeq(read_buf, 1, HEADER_LEN)
                \in { ZeroLengthFrame, SubSeq(OversizeFrame, 1, HEADER_LEN) }

C6_Witness ==
    /\ reader_exit = "Protocol"
    /\ frames_sent = << OversizeFrame, build_framed_msg(BodyOpenOrderEnd) >>
    /\ wire = << >>
    /\ chan = << ReaderError("Protocol"), ConnectionClosed >>

\* C7: a call of disconnect() on a client that is already disconnected
\* changes nothing and returns at once: the writer is not shut down again,
\* no task is waited for, and the client's state stays as it was.
C7_DisconnectIdempotent ==
    [][ (disconnect_calls' = disconnect_calls + 1 /\ ~connected) =>
            /\ client_pc' = "idle"
            /\ UNCHANGED << connected, writer, reader_handle, reader_fate,
                            abort_requested, client_pc, shutdown_calls >>
            /\ UNCHANGED << wire, server_vars, reader_vars, nrecv, rx_alive >>
      ]_vars

C7_Witness ==
    /\ disconnect_calls = 2
    /\ shutdown_calls = 1
    /\ ~connected
    /\ client_pc = "idle"
    /\ writer = "shut"

\* C8: disconnect() on a connected client first sets the state to
\* disconnected, then shuts the writer down, and returns only when the reader
\* task has ended; once it has returned is_connected() is false and no event
\* is added to the channel any more.
C8_DisconnectWaitsForReader ==
    /\ [](client_pc \in { "shutdown", "join" } => ~connected)
    /\ [](client_pc = "join" => writer = "shut")
    /\ [](DisconnectReturned =>
            (writer = "shut" /\ reader_pc = "done" /\ reader_fate = "joined"))
    /\ [][ DisconnectReturned => (chan' = chan /\ emitted' = emitted) ]_vars

C8_Witness ==
    /\ DisconnectReturned
    /\ client_pc = "idle"
    /\ disconnect_calls = 1
    /\ reader_exit = "Disconnected"
    /\ nrecv < Len(chan)

C10_StrictlyIncreasing ==
    \A i, j \in 1..Len(minted) : i < j => minted[i].id < minted[j].id

\* C11: after set_next_req_id(n), the next call of next_req_id returns n:
\* the first ID handed out since the last reset is the value of that reset.
C11_SetThenNextReturnsN ==
    (last_set # << >> /\ minted # << >>) => minted[1].id = last_set[1]

C11_Witness ==
    /\ last_set = << 100 >>
    /\ Len(minted) = 2
    /\ minted[1].id = 100
    /\ minted[2].id = 101

\* ------------------------------------------------------------------------
\* Requests
\* ------------------------------------------------------------------------
\* The calls that returned to the application (a cancelled call never does).
Returned(i) == req_log[i].result # "Cancelled"

\* C12: a request method returns success, a Connection error or an Encoding
\* error and nothing else: a failed write on the socket comes back as a
\* Connection error, never as Io, and no call returns Decoding, Protocol,
\* Server, Timeout or Disconnected.
C12_RequestErrorsConnectionOrEncoding ==
    \A i \in 1..Len(req_log) :
        Returned(i) => req_log[i].result \in { "Ok", "Connection", "Encoding" }

\* A write that failed after part of the frame, then a version check that
\* failed.
C12_Witness ==
    /\ Len(req_log) = 2
    /\ req_log[1].result = "Connection"
    /\ req_log[1].written = 5
    /\ req_log[2].result = "Encoding"

\* The server version a method's feature needs (0: every server has it).
feature_gate(m) ==
    IF m = "req_current_time_in_millis" THEN CURRENT_TIME_IN_MILLIS
    ELSE IF m = "req_wsh_meta_data" THEN WSHE_CALENDAR
    ELSE 0

\* C13: a request method whose feature is gated on a server version checks
\* the version first: on a server below the gate the call returns an
\* Encoding error and writes no byte.
C13_GatedMethodsCheckFirst ==
    \A i \in 1..Len(req_log) :
        server_version < feature_gate(req_log[i].method)
            => /\ req_log[i].result = "Encoding"
               /\ req_log[i].written = 0

\* C14: a send cancelled with its frame partly written is either completed
\* (no partial frame stays on the wire) or ends the connection: no byte of
\* a later request follows the partial frame.
C14_CancelAtomicOrTerminal ==
    \A i \in 1..Len(req_log) :
        (/\ req_log[i].result = "Cancelled"
         /\ req_log[i].written > 0
         /\ req_log[i].written < Len(req_log[i].frame))
            => Len(out_wire) = req_log[i].start + req_log[i].written

\* C15: a request method returns success only when its whole frame is on
\* the wire, in one piece; the bytes of successive calls lie on the wire in
\* call order without overlap, and the call in progress has written a
\* prefix of its frame after everything the earlier calls wrote.
C15_WritesSerialized ==
    /\ \A i \in 1..Len(req_log) :
           /\ req_log[i].result = "Ok" =>
                  /\ req_log[i].written = Len(req_log[i].frame)
                  /\ req_log[i].frame # << >>
           /\ SubSeq(out_wire, req_log[i].start + 1,
                     req_log[i].start + req_log[i].written)
                  = SubSeq(req_log[i].frame, 1, req_log[i].written)
    /\ \A i, j \in 1..Len(req_log) :
           i < j => req_log[i].start + req_log[i].written <= req_log[j].start
    /\ IF req_pc = "writing"
       THEN /\ Len(out_wire) = req_cur.start + req_cur.written
            /\ SubSeq(out_wire, req_cur.start + 1, Len(out_wire))
                   = SubSeq(req_cur.frame, 1, req_cur.written)
            /\ \A i \in 1..Len(req_log) :
                   req_log[i].start + req_log[i].written <= req_cur.start
       ELSE req_log # << >> =>
                Len(out_wire) = req_log[Len(req_log)].start
                                    + req_log[Len(req_log)].written

\* Two calls that succeeded, and the second frame right behind the first.
C15_Witness ==
    /\ Len(req_log) = 2
    /\ req_log[1].result = "Ok"
    /\ req_log[2].result = "Ok"
    /\ req_log[1].method = "req_wsh_meta_data"
    /\ req_log[2].method = "req_current_time"
    /\ req_log[2].start = req_log[1].start + Len(req_log[1].frame)
    /\ Len(out_wire) = req_log[2].start + Len(req_log[2].frame)

\* ------------------------------------------------------------------------
\* The event channel
\* ------------------------------------------------------------------------
\* C16: the reader never waits for the application: an event it has decoded
\* is passed to the channel and the reader goes on, however many events
\* wait in the channel and even if the application never receives any.
C16_ReaderNeverBlocksOnConsumer ==
    \A k \in 0..(MaxFrames + 1) :
        (reader_pc = "send" /\ Len(emitted) = k) ~> (Len(emitted) > k)

\* Two events in the channel, none received, and the reader back at reading.
C16_Witness ==
    /\ rx_alive
    /\ nrecv = 0
    /\ Len(chan) = 2
    /\ reader_pc = "header"
    /\ reader_exit = "none"

ConnectRequestLen(w) ==
    Len(API_SIGN) + HEADER_LEN
        + u32_from_be_bytes(SubSeq(w, Len(API_SIGN) + 1,
                                   Len(API_SIGN) + HEADER_LEN))

\* The first frame the client wrote after its connect request, and its end.
FirstFrameLen(w) ==
    u32_from_be_bytes(SubSeq(w, ConnectRequestLen(w) + 1,
                             ConnectRequestLen(w) + HEADER_LEN))

FirstFrameEnd(w) == ConnectRequestLen(w) + HEADER_LEN + FirstFrameLen(w)

FirstFrameBody(w) ==
    SubSeq(w, ConnectRequestLen(w) + HEADER_LEN + 1, FirstFrameEnd(w))

\* The body is START_API as a server of version sv reads it: the ID 71,
\* the version 2, the client ID and the optional capabilities.
IsStartApi(body, sv, args) ==
    LET id == decode_msg_id(body, 0, sv) IN
    /\ id.ok /\ id.val = 71
    /\ LET version == decode_i32(body, id.pos) IN
       /\ version.ok /\ version.val = 2
       /\ LET cid == decode_i32(body, version.pos) IN
          /\ cid.ok /\ cid.val = args.client_id
          /\ IF sv >= OPTIONAL_CAPABILITIES
             THEN LET caps == read_field_str(body, cid.pos) IN
                  /\ caps.ok
                  /\ caps.val = (IF args.caps.some THEN args.caps.val ELSE << >>)
                  /\ caps.pos = Len(body)
             ELSE cid.pos = Len(body)

\* C18: after a successful handshake START_API is the first message the
\* client writes: when connect has returned a client, the frame behind the
\* connect request is START_API, and every request frame lies behind it;
\* before that no request method can run.
C18_StartApiFirst ==
    /\ hs_pc = "done" =>
           /\ connect_result = Connected
           /\ IsStartApi(FirstFrameBody(out_wire), server_version, connect_args)
           /\ \A i \in 1..Len(req_log) :
                  req_log[i].start >= FirstFrameEnd(out_wire)
           /\ req_pc = "writing" => req_cur.start >= FirstFrameEnd(out_wire)
    /\ hs_pc # "done" =>
           /\ req_log = << >>
           /\ req_pc = "idle"
           /\ out_wire \in { << >>, build_connect_request.val }

\* A server past the protobuf gate, a client with capabilities, and one
\* request written behind START_API.
C18_Witness ==
    /\ hs_pc = "done"
    /\ server_version = 203
    /\ connect_args.client_id = 7
    /\ Len(req_log) = 1
    /\ req_log[1].result = "Ok"
    /\ req_log[1].start = FirstFrameEnd(out_wire)

\* No client, no reader task, no receiver: connect has not succeeded.
NeverConnected ==
    /\ hs_pc \in { "ack", "failed" }
    /\ client_pc = "none"
    /\ reader_pc = "unspawned"
    /\ reader_handle = "none"
    /\ ~rx_alive
    /\ ~connected
    /\ connect_result # Connected

VersionReply(v) == build_framed_response(<< write_display(v), TimeField >>)

\* C19: a handshake reply whose server version is outside [100, 203] fails
\* the handshake (an unsupported-version Protocol error, unless the read
\* failed first), and no client, reader task or receiver is produced.
C19_UnsupportedVersionFails ==
    \A v \in { 0, 99, 204 } :
        hs_reply = << VersionReply(v) >> =>
            /\ NeverConnected
            /\ hs_pc = "failed" =>
                   /\ connect_result.err \in { "Protocol", "Io", "Disconnected" }
                   /\ connect_result.err = "Protocol" =>
                          connect_result.what = "unsupported server version"

C19_Witness ==
    /\ hs_reply = << VersionReply(204) >>
    /\ hs_pc = "failed"
    /\ connect_result.err = "Protocol"
    /\ connect_result.what = "unsupported server version"
    /\ connect_result.detail = << 50, 48, 52 >>

\* C20: a reply with a negative server version fails connect with a
\* redirect error that carries the host:port of the next field, and
\* connect opens no second connection.
C20_RedirectFailsAndIsNotFollowed ==
    /\ tcp_opens <= 1
    /\ hs_reply = << build_framed_response(<< << 45, 49 >>, HostPortField >>) >> =>
           /\ NeverConnected
           /\ hs_pc = "failed" =>
                  /\ connect_result.err \in { "Protocol", "Io", "Disconnected" }
                  /\ connect_result.err = "Protocol" =>
                         /\ connect_result.what = "server redirect to"
                         /\ connect_result.detail = HostPortField

C20_Witness ==
    /\ hs_reply = << build_framed_response(<< << 45, 49 >>, HostPortField >>) >>
    /\ hs_pc = "failed"
    /\ connect_result = ConnectErr("Protocol", "server redirect to", HostPortField)
    /\ tcp_opens = 1
    /\ read_buf = << >>

\* "API\0", a 4-byte length and "v100..203", with the length as a parameter.
ScenarioRequest(len) ==
    << 65, 80, 73, 0, 0, 0, 0, len, 118, 49, 48, 48, 46, 46, 50, 48, 51 >>

\* A length header of one byte, then "176\0" "20260101 12:00:00\0".
ScenarioReply(len) ==
    << 0, 0, 0, len, 49, 55, 54, 0,
       50, 48, 50, 54, 48, 49, 48, 49, 32, 49, 50, 58, 48, 48, 58, 48, 48, 0 >>

\* The handshake of a client that got the reply: the request it sent, and
\* how it ends once the whole reply is in its buffer.
ScenarioHolds(request, reply) ==
    /\ out_wire # << >> => SubSeq(out_wire, 1, Len(request)) = request
    /\ hs_reply = << reply >> =>
           /\ hs_pc \in { "start_api", "done" } =>
                  /\ server_version = 176
                  /\ tws_time = SubSeq(reply, 9, 25)
           /\ hs_pc = "done" => connect_result = Connected
           /\ Len(read_buf) = Len(reply) =>
                  ~(hs_pc = "failed" /\ connect_result.err = "Disconnected")

\* The scenario with the lengths 0A and 17 (hexadecimal).
C21_Original == ScenarioHolds(ScenarioRequest(10), ScenarioReply(23))

\* C21: a reply whose version is in the supported range makes the client
\* record the version and the second field as the connection time and become
\* connected, unless a read or the send of START_API fails; the client sends
\* "API\0", the length 00 00 00 09 and "v100..203", and the reply with the
\* header 00 00 00 16 and the body "176\0" "20260101 12:00:00\0" leaves it
\* connected with version 176 and time "20260101 12:00:00".
C21_InRangeVersionConnects ==
    /\ ScenarioHolds(ScenarioRequest(9), ScenarioReply(22))
    /\ \A v \in { 100, 176, 203 } :
           hs_reply = << VersionReply(v) >> =>
               /\ hs_pc \in { "start_api", "done" } =>
                      server_version = v /\ tws_time = TimeField
               /\ hs_pc = "done" => connect_result = Connected
               /\ hs_pc = "failed" =>
                      connect_result.err \in { "Io", "Disconnected", "Connection" }

\* The reply of the scenario, read, and a client made with what it says.
C21_Witness ==
    /\ hs_reply = << ScenarioReply(22) >>
    /\ SubSeq(out_wire, 1, 17) = ScenarioRequest(9)
    /\ hs_pc = "done"
    /\ connect_result = Connected
    /\ server_version = 176
    /\ tws_time = TimeField
    /\ read_buf = << >>

\* ------------------------------------------------------------------------
\* The codec
\* ------------------------------------------------------------------------
\* finalize wrote the big-endian length and the body, and read_message
\* gave the body back and took the whole frame.
FrameRoundTrip ==
    /\ codec_pc \in { "encoded", "decoded" } =>
           /\ codec_mid.ok
           /\ codec_mid.val = u32_to_be_bytes(Len(codec_in.body)) \o codec_in.body
           /\ u32_from_be_bytes(SubSeq(codec_mid.val, 1, 4)) = Len(codec_in.body)
    /\ codec_pc = "decoded" =>
           /\ codec_out.ok
           /\ codec_out.val = codec_in.body
           /\ codec_out.pos = Len(codec_mid.val)

\* The header of a body of the given length is accepted and read back.
HeaderRoundTrip ==
    /\ codec_pc \in { "encoded", "decoded" } => codec_mid.ok
    /\ codec_pc = "decoded" => codec_out.ok /\ codec_out.val = codec_in.len

\* The claim for every body of at most 16 MiB - 1 bytes, the empty one too.
C22_Original ==
    /\ codec_in.kind = "frame" => FrameRoundTrip
    /\ (codec_in.kind = "header" /\ codec_in.len <= MAX_MSG_LEN) =>
           HeaderRoundTrip

\* C22: for a body B of 1 to 16 MiB - 1 bytes finalize yields the 4-byte
\* big-endian length of B followed by B, and read_message of that frame
\* yields exactly B; a longer body is refused by finalize, and the frame of
\* an empty body is refused by read_message.
C22_FrameRoundTrip ==
    /\ (codec_in.kind = "frame" /\ Len(codec_in.body) >= 1) => FrameRoundTrip
    /\ (codec_in.kind = "frame" /\ codec_in.body = << >>) =>
           /\ codec_pc \in { "encoded", "decoded" } =>
                  codec_mid = Ok(<< 0, 0, 0, 0 >>, 0)
           /\ codec_pc = "decoded" => codec_out = Err("Protocol")
    /\ (codec_in.kind = "header" /\ codec_in.len >= 1
           /\ codec_in.len <= MAX_MSG_LEN) => HeaderRoundTrip
    /\ (codec_in.kind = "header" /\ codec_in.len > MAX_MSG_LEN
           /\ codec_pc # "input") =>
           codec_pc = "encoded" /\ codec_mid = Err("Encoding")

\* A body of 300 bytes came back.
C22_Witness ==
    /\ codec_in.kind = "frame"
    /\ codec_pc = "decoded"
    /\ codec_mid.val = << 0, 0, 1, 44 >> \o Filler(300)
    /\ codec_out.val = Filler(300)

\* The bytes are an ASCII decimal number and a null byte.
IsDecimalField(b) ==
    /\ Len(b) >= 2
    /\ b[Len(b)] = 0
    /\ \A i \in 1..(Len(b) - 1) : IsDigit(b[i]) \/ (i = 1 /\ b[i] = 45)

\* C23: encode_msg_id writes the ID as an ASCII decimal field with a null
\* terminator below the PROTOBUF version and as 4 big-endian bytes from it
\* on, and decode_msg_id with the same version reads the ID back and stops
\* right behind the bytes of the ID.
C23_MsgIdRoundTrip ==
    codec_in.kind = "msg_id" =>
        /\ codec_pc \in { "encoded", "decoded" } =>
               IF codec_in.sv < 201
               THEN IsDecimalField(codec_mid.id)
               ELSE Len(codec_mid.id) = 4
        /\ codec_pc = "decoded" =>
               /\ codec_out.ok
               /\ codec_out.val = codec_in.msg_id
               /\ codec_out.pos = Len(codec_mid.id)

\* START_API at the gate: four raw bytes, read back as 71.
C23_Witness ==
    /\ codec_in = [kind |-> "msg_id", sv |-> 201, msg_id |-> 71]
    /\ codec_pc = "decoded"
    /\ codec_mid.id = << 0, 0, 0, 71 >>
    /\ codec_out = Ok(71, 4)

\* C24: a value written by the encoder method of its field type is what
\* the decoder method of that type reads back from the buffer, and the
\* decoder stops right behind the field.
C24_FieldRoundTrip ==
    (codec_in.kind = "field" /\ codec_pc = "decoded") =>
        /\ codec_out.ok
        /\ codec_out.val = codec_in.value
        /\ codec_out.pos = Len(codec_mid.field)

\* C25: a string with a byte outside {9, 10, 13, 32..126} is rejected by
\* the encoder: no bytes come out of the call.
C25_EncoderRejectsNonPrintable ==
    (codec_in.kind = "field" /\ codec_in.type = "str"
        /\ ~(\A i \in 1..Len(codec_in.value) :
                 codec_in.value[i] \in (32..126) \cup {9, 10, 13})
        /\ codec_pc \in { "encoded", "decoded" }) =>
        (~codec_mid.ok \/ codec_mid.field = << >>)


\* A dispatch call that has returned.
Dispatched == codec_in.kind = "dispatch" /\ codec_pc = "decoded"

\* The message ID of the dispatched frame, as decode_msg_id reads it.
FrameMsgId == decode_msg_id(codec_in.body, 0, codec_in.sv)

\* C26 as stated: a frame whose message ID has no per-message decoder (no
\* entry in the table for an ID up to 200, no protobuf decoder for an ID above
\* it) produces an Unknown event with that ID and the frame's raw bytes.
C26_Original ==
    (Dispatched /\ FrameMsgId.ok
        /\ (IF FrameMsgId.val > PROTOBUF_MSG_ID
            THEN FrameMsgId.val - PROTOBUF_MSG_ID \notin ProtobufIds
            ELSE FrameMsgId.val \notin IncomingIds)) =>
        codec_out.val = Unknown(FrameMsgId.val, codec_in.body)

\* C26: a frame whose message ID is at most 200 and has no per-message
\* decoder produces an Unknown event with that ID and the frame's raw bytes;
\* a frame whose message ID is above 200 and has no protobuf decoder produces
\* an Unknown event with msg_id -1 and the frame's raw bytes.  Neither is an
\* error of the call.
C26_UnknownIdGivesUnknownEvent ==
    (Dispatched /\ FrameMsgId.ok) =>
        /\ (FrameMsgId.val <= PROTOBUF_MSG_ID /\ FrameMsgId.val \notin IncomingIds) =>
               /\ codec_out.val = Unknown(FrameMsgId.val, codec_in.body)
               /\ codec_mid.ok
        /\ (FrameMsgId.val > PROTOBUF_MSG_ID
                /\ FrameMsgId.val - PROTOBUF_MSG_ID \notin ProtobufIds) =>
               codec_out.val = Unknown(0 - 1, codec_in.body)

C26_Witness ==
    /\ Dispatched
    /\ codec_in.sv = PROTOBUF
    /\ FrameMsgId.ok /\ FrameMsgId.val = 199
    /\ codec_out.val = Unknown(199, codec_in.body)

\* The variants of IBEvent the dispatcher of the model builds.
EventVariants ==
    { "Error", "NextValidId", "ManagedAccounts", "CurrentTime", "OrderStatus",
      "OpenOrder", "OpenOrderEnd", "CompletedOrdersEnd", "ExecDetails",
      "ExecDetailsEnd", "PositionEnd", "FamilyCodes", "Decoded", "Unknown" }

\* C27: the dispatcher returns an event for every frame body; a truncated
\* frame, invalid UTF-8, a malformed number and a payload that does not parse
\* are decoding errors, and on every decoding error the event is Unknown with
\* msg_id -1 and the whole frame body; otherwise it is the decoder's event.
C27_DecodingTotal ==
    Dispatched =>
        /\ codec_out.ok
        /\ codec_out.val.type \in EventVariants
        /\ codec_mid.ok => codec_out.val = codec_mid.val
        /\ ~codec_mid.ok =>
               /\ codec_mid.err = "Decoding"
               /\ codec_out.val = Unknown(0 - 1, codec_in.body)
        /\ codec_in.body \in TruncatedBodies(codec_in.sv)
                   \cup MalformedNumberBodies(codec_in.sv)
                   \cup InvalidUtf8Bodies(codec_in.sv)
                   \cup BadProtoBodies(codec_in.sv) \cup { << >>, << 52, 50 >> }
               => ~codec_mid.ok

\* The IDs whose decoders the model follows to their last field.
ExactlyDecodedIds == FieldDecodedIds \ { OPEN_ORDER, EXECUTION_DATA }

\* A dispatch call whose frame a per-message decoder of the table accepted.
Accepted ==
    /\ Dispatched
    /\ FrameMsgId.ok /\ FrameMsgId.val \in ExactlyDecodedIds
    /\ codec_mid.ok

\* C28 as stated: for every frame a per-message decoder accepts, the bytes
\* consumed are exactly the frame body.
C28_Original == Accepted => codec_mid.pos = Len(codec_in.body)

\* C28: for every frame a per-message decoder accepts, the bytes it consumes
\* never exceed the frame body (what follows the last field it reads is left
\* unread and does not change the event), and a decoder that would read past
\* the end, for a missing field or a field with no terminator, raises a
\* Decoding error.
C28_ConsumedWithinFrame ==
    /\ Accepted =>
           /\ codec_mid.pos <= Len(codec_in.body)
           /\ decode_server_msg_inner(SubSeq(codec_in.body, 1, codec_mid.pos),
                                      codec_in.sv) = codec_mid
    /\ (Dispatched /\ FrameMsgId.ok /\ FrameMsgId.val \in ExactlyDecodedIds
            /\ codec_in.body \in MissingFieldBodies(codec_in.sv)
                                     \cup TruncatedBodies(codec_in.sv)) =>
           codec_mid = Err("Decoding")

C28_Witness ==
    /\ Accepted
    /\ codec_in.body \in TrailingBodies(codec_in.sv)
    /\ codec_mid.val = OpenOrderEnd
    /\ codec_mid.pos < Len(codec_in.body)

RECURSIVE split_fields(_, _)
split_fields(bytes, field) ==
    IF bytes = << >> THEN << >>
    ELSE IF bytes[1] = 0 THEN << field >> \o split_fields(Tail(bytes), << >>)
    ELSE split_fields(Tail(bytes), Append(field, bytes[1]))

MessageFields(msg, sv) ==
    IF sv >= PROTOBUF
    THEN << SubSeq(msg, 1, RAW_INT_LEN) >> \o split_fields(remaining(msg, RAW_INT_LEN), << >>)
    ELSE split_fields(msg, << >>)

\* a is b with some fields left out.
RECURSIVE FieldsLeftOut(_, _)
FieldsLeftOut(a, b) ==
    IF a = << >> THEN TRUE
    ELSE IF b = << >> THEN FALSE
    ELSE IF a[1] = b[1] THEN FieldsLeftOut(Tail(a), Tail(b))
    ELSE FieldsLeftOut(a, Tail(b))

\* The gates on which a request method adds fields (server_version >= G), and
\* those at which it drops a field or changes its form.
AddGates(method) ==
    IF method = "req_mkt_data"
    THEN { DELTA_NEUTRAL, REQ_MKT_DATA_CONID, TRADING_CLASS, LINKING,
           REQ_SMART_COMPONENTS }
    ELSE IF method = "req_historical_data"
    THEN { TRADING_CLASS, LINKING, SYNT_REALTIME_BARS }
    ELSE { MANUAL_ORDER_TIME, RFQ_FIELDS, CME_TAGGING_FIELDS }

DropGates(method) ==
    IF method = "req_mkt_data" THEN { PROTOBUF }
    ELSE IF method = "req_historical_data" THEN { SYNT_REALTIME_BARS, PROTOBUF }
    ELSE { UNDO_RFQ_FIELDS, CME_TAGGING_FIELDS_IN_OPEN_ORDER, PROTOBUF,
           PROTOBUF_PLACE_ORDER }

\* A request call that has returned its message in the ASCII form.
Requested ==
    /\ codec_in.kind = "request" /\ codec_pc = "decoded"
    /\ ~(codec_in.method = "cancel_order" /\ codec_in.sv >= PROTOBUF_PLACE_ORDER)

\* The message of the same call at another server version has more fields,
\* and the message built is that one with fields left out.
FewerFieldsThanAt(sv) ==
    LET lo == MessageFields(codec_out.val, codec_in.sv)
        hi == MessageFields(request_message(codec_in.method, sv, codec_in.args), sv)
    IN  Len(lo) < Len(hi) /\ FieldsLeftOut(lo, hi)

\* C30 as stated: for every gate G of a request method, the message at any
\* server version below G has strictly fewer fields than the message for the
\* same arguments at any server version from G on, and the two agree byte
\* for byte before the gated fields.
C30_Original ==
    Requested =>
        \A g \in AddGates(codec_in.method) : \A sv \in RequestVersions :
            (codec_in.sv < g /\ sv >= g
                /\ ~(codec_in.method = "cancel_order" /\ sv >= PROTOBUF_PLACE_ORDER)) =>
                FewerFieldsThanAt(sv)

\* C30: for every gate G at which a request method adds a field, and every
\* pair of server versions lo < G <= hi with no gate in (lo, hi] at which the
\* method drops a field or changes the form of the message, the message at
\* lo has strictly fewer fields than the message for the same arguments at
\* hi, and is that message with the gated fields left out (the bytes before
\* the first gated field are the same).
C30_GatedFieldsAdded ==
    Requested =>
        \A g \in AddGates(codec_in.method) : \A sv \in RequestVersions :
            (/\ codec_in.sv < g /\ g <= sv
             /\ \A d \in DropGates(codec_in.method) :
                    ~(codec_in.sv < d /\ d <= sv)) =>
                FewerFieldsThanAt(sv)

C30_Witness ==
    /\ Requested
    /\ codec_in.method = "cancel_order"
    /\ codec_in.sv = CME_TAGGING_FIELDS - 1
    /\ Len(MessageFields(codec_out.val, codec_in.sv)) = 4
    /\ Len(MessageFields(cancel_order(CME_TAGGING_FIELDS, codec_in.args),
                         CME_TAGGING_FIELDS)) = 6

\* The bytes of a sequence of frames, in order.
RECURSIVE Flatten(_)
Flatten(frames) ==
    IF frames = << >> THEN << >> ELSE Head(frames) \o Flatten(Tail(frames))

\* The events of the frames read_message has returned to the reader task.
FramesRead == FrameEventsOf(emitted \o pending)

\* C31: however the server's bytes are split across reads, bytes of later
\* frames read together with the handshake reply included, the frames
\* read_message returns are the frames the server sent, in order: once the
\* handshake reply has been read, the frames returned so far are the first
\* frames sent, and the bytes of the other frames sent are exactly the bytes
\* in the read buffer followed by the bytes not yet read (none lost, none
\* twice, none in another frame).
C31_HandoffKeepsFrames ==
    hs_pc \in { "start_api", "done" } =>
        LET n == Len(FramesRead) IN
        /\ n <= Len(frames_sent)
        /\ FramesRead = ServerEvents(SubSeq(frames_sent, 1, n))
        /\ Flatten(SubSeq(frames_sent, n + 1, Len(frames_sent)))
               = read_buf \o wire

C31_Witness ==
    /\ hs_pc = "done"
    /\ split_buf = build_framed_msg(BodyPositionEnd)
                       \o SubSeq(build_framed_msg(BodyOpenOrderEnd), 1, 5)
    /\ emitted = << PositionEnd, OpenOrderEnd >>

\* A step in which a request method returns to the application.
RequestReturns == Len(req_log') > Len(req_log) /\ Last(req_log').result # "Cancelled"

\* C32 as stated: once disconnect() has been called, no step writes a byte
\* to the socket, and every request that returns, returns a Connection
\* error.
C32_Original ==
    [][disconnect_calls > 0 =>
           /\ out_wire' = out_wire
           /\ RequestReturns => Last(req_log').result = "Connection"]_vars

\* C32: once disconnect() has been called, no step writes a byte to the
\* socket, and every request that returns, returns an error: the Connection
\* error of send_raw, or the Encoding error of the method's version check or
\* of finalize, which come before the connected check.
C32_NoWriteAfterDisconnect ==
    [][disconnect_calls > 0 =>
           /\ out_wire' = out_wire
           /\ RequestReturns =>
                  Last(req_log').result \in { "Connection", "Encoding" }]_vars

\* A request called after disconnect() came back "not connected" with no
\* byte written.
C32_Witness ==
    /\ disconnect_calls > 0
    /\ ~connected
    /\ req_log # << >>
    /\ Last(req_log).result = "Connection"
    /\ Last(req_log).frame = << >>
    /\ Last(req_log).start = Len(out_wire)

\* C33: a disconnect() that found the client connected eventually returns,
\* given that the server closes its end once it has the client's FIN.
C33_DisconnectReturns ==
    client_pc \in { "shutdown", "join" } ~> client_pc = "idle"

\* A disconnect returned after joining a reader task that ended on the EOF
\* the server's close produced behind the client's FIN.
C33_Witness ==
    /\ client_pc = "idle"
    /\ disconnect_calls = 1
    /\ writer = "shut"
    /\ server_closed
    /\ reader_fate = "joined"
    /\ reader_exit = "Disconnected"
    /\ Len(emitted) >= 2

\* C34: is_connected() is true from the successful return of connect() to
\* the first call of disconnect() and false ever after; the flag changes in
\* those two steps only.
C34_ConnectedUntilDisconnect ==
    /\ [](connect_result.ok =>
             (is_connected(connected) <=> disconnect_calls = 0))
    /\ [][connected' # connected =>
             \/ connected' /\ ~connect_result.ok /\ connect_result'.ok
             \/ ~connected' /\ disconnect_calls' = disconnect_calls + 1]_vars

\* The server closed, the reader task ended, the receiver was dropped and a
\* request failed to send, and the client still reports itself connected.
C34_Witness ==
    /\ is_connected(connected)
    /\ disconnect_calls = 0
    /\ server_closed
    /\ reader_pc = "done"
    /\ ~rx_alive
    /\ req_log # << >>
    /\ Last(req_log).result = "Connection"

C36_CompletedAtMostOnce ==
    /\ [](\A s \in Serials : tx[s].sends <= 1)
    /\ [][\A s \in Serials :
             /\ tx'[s].sends > tx[s].sends =>
                    \A k \in PendingKeys : pending_map'[k].serial # s
             /\ tx[s].sends = 1 =>
                    tx'[s].sends = 1 /\ tx'[s].data = tx[s].data]_vars

\* The one request of the manager got its End event and returned, and a
\* later event for its id found no entry.
C36_Witness ==
    /\ mgr_calls = 1
    /\ tx[1].sends = 1
    /\ mgr_log[1].outcome = "Ok"
    /\ unmatched = 1
    /\ rx = << >>

\* C37: when a request method of the manager has returned, whatever it
\* returned, the pending map holds no entry of that call.
C37_NoEntryAfterReturn ==
    \A s \in Serials :
        (mgr_log[s].op \in RequestOps /\ mgr_log[s].outcome # "none") =>
            \A k \in PendingKeys : pending_map[k].serial # s

\* C38: once the placing call has stored the order and every OrderStatus
\* event sent for it has been processed, the stored record carries the last
\* status the server sent.
C38_StatusReflected ==
    \A id \in OrderIds :
        (/\ order_map[id].status # "none"
         /\ last_status[id] # "none"
         /\ \A i \in DOMAIN rx :
                ~(rx[i].type = "OrderStatus" /\ rx[i].id = id)) =>
            order_map[id].status = last_status[id]

\* C39: no two place_order calls of a session carry the same order id.
C39_OrderIdsDistinct ==
    \A i, j \in DOMAIN submitted : i # j => submitted[i] # submitted[j]
=========================================================================
